---- MODULE Spec2Model ----
(***************************************************************************)
(* Response parsing and normalization of the test-case generator.         *)
(*                                                                         *)
(* The response text is a sequence of lexical tokens: a prose character,  *)
(* the two bracket characters, the comma, and JSON scalars and objects.   *)
(* str.find / str.rfind look for the bracket characters, json.loads is a  *)
(* recursive-descent parse of the slice, and the normalization loop works *)
(* on the Python dicts (functions from keys to JSON values).              *)
(***************************************************************************)
EXTENDS Integers, Sequences, FiniteSets, TLC

VARIABLES
    response_text,  \* the text handed to the parser (token sequence)
    now,            \* the wall clock, datetime.now()
    pc,             \* "ready", or the parser that has run: "svc" | "app"
    result,         \* the dict the parser returned
    raised,         \* the exception that left the parser, "none" if it returned
    call_now,       \* the clock when the parser was entered
    call_tick,      \* the datetime.now() call of the parser at which the clock ticked
    data,           \* the argument handed to the validation service
    verdict,        \* what the validation service answered, or the exception it raised
    to_export,      \* the test_cases argument handed to the export service
    exported,       \* the file the export service built, or the exception it raised
    api_key,        \* whether ANTHROPIC_API_KEY is set in the environment
    request,        \* the body of the inbound generate call
    hpc,            \* the generate call: "idle", "posted" (waiting for the model), "done"
    caller,         \* who is generating: the route of app.py or AnthropicService
    posts,          \* the number of calls of requests.post
    outbound,       \* the payload of the outbound call
    upstream,       \* what the outbound call came back with
    response,       \* the answer to the inbound call
    calls,          \* concurrent generate requests: where each is, what it got, its answer
    frames          \* the stack frame of each running handler: its local variables

parse_vars == <<response_text, now, pc, result, raised, call_now, call_tick>>
validation_vars == <<data, verdict>>
export_vars == <<to_export, exported>>
generate_vars == <<api_key, request, hpc, caller, posts, outbound, upstream, response, calls, frames>>
service_vars == <<validation_vars, export_vars, generate_vars>>

vars == <<parse_vars, service_vars>>

---------------------------------------------------------------------------
\* Bounds of the model.

MaxLen == 4       \* longest response text enumerated token by token
MaxElems == 2     \* longest array of id-carrying objects
MaxArray == 12    \* longest array of identical objects
MaxClock == 2     \* last instant of the clock

---------------------------------------------------------------------------
\* JSON values as Python holds them after json.loads.

JNull == [t |-> "null"]
JNum(n) == [t |-> "num", n |-> n]
JStr(s) == [t |-> "str", s |-> s]
JList(l) == [t |-> "list", l |-> l]
JObj(o) == [t |-> "obj", o |-> o]

EmptyDict == [k \in {} |-> JNull]

\* Tokens of the text that are not JSON values.
LBR == [t |-> "["]
RBR == [t |-> "]"]
COMMA == [t |-> ","]
PROSE == [t |-> "x"]

ScalarTags == {"null", "num", "str", "obj"}

\* Python truthiness of a JSON value (`not v`).
Truthy(v) ==
    CASE v.t = "null" -> FALSE
      [] v.t = "num" -> v.n # 0
      [] v.t = "str" -> v.s # ""
      [] v.t = "list" -> v.l # <<>>
      [] v.t = "obj" -> DOMAIN v.o # {}
      [] OTHER -> TRUE

\* dict.get(key): None when the key is absent.
Get(d, key) == IF key \in DOMAIN d THEN d[key] ELSE JNull

\* d[key] = v
SetItem(d, key, v) ==
    [k \in DOMAIN d \cup {key} |-> IF k = key THEN v ELSE d[k]]

\* d.setdefault(key, v)
SetDefault(d, key, v) == IF key \in DOMAIN d THEN d ELSE SetItem(d, key, v)

---------------------------------------------------------------------------
\* str.find, str.rfind and slicing, with Python's 0-based indices.

Find(text, tok) ==
    IF \E i \in 1..Len(text) : text[i] = tok
    THEN (CHOOSE i \in 1..Len(text) :
            text[i] = tok /\ \A j \in 1..(i-1) : text[j] # tok) - 1
    ELSE -1

\* Mutant: the first occurrence, where the code takes the last one.
RFindFirst(text, tok) ==
    IF \E i \in 1..Len(text) : text[i] = tok
    THEN (CHOOSE i \in 1..Len(text) :
            text[i] = tok /\ \A j \in 1..(i-1) : text[j] # tok) - 1
    ELSE -1

RFind(text, tok) ==
    IF \E i \in 1..Len(text) : text[i] = tok
    THEN (CHOOSE i \in 1..Len(text) :
            text[i] = tok /\ \A j \in (i+1)..Len(text) : text[j] # tok) - 1
    ELSE -1

\* text[a:b] for 0 <= a, 0 <= b
Slice(text, a, b) == SubSeq(text, a + 1, b)

---------------------------------------------------------------------------
\* json.loads: a value is a scalar or object token, or '[' values ']'.

JsonErr(m) == [ok |-> FALSE, msg |-> m]

RECURSIVE ParseValue(_, _)
RECURSIVE ParseItems(_, _, _)

ParseItems(s, p, acc) ==
    LET v == ParseValue(s, p) IN
    IF ~v.ok THEN v
    ELSE IF v.next > Len(s) THEN JsonErr("Expecting ',' delimiter")
    ELSE IF s[v.next] = RBR
         THEN [ok |-> TRUE, val |-> JList(Append(acc, v.val)), next |-> v.next + 1]
    ELSE IF s[v.next] = COMMA
         THEN ParseItems(s, v.next + 1, Append(acc, v.val))
    ELSE JsonErr("Expecting ',' delimiter")

ParseValue(s, p) ==
    IF p > Len(s) THEN JsonErr("Expecting value")
    ELSE IF s[p].t \in ScalarTags
         THEN [ok |-> TRUE, val |-> s[p], next |-> p + 1]
    ELSE IF s[p] = LBR
         THEN IF p + 1 <= Len(s) /\ s[p + 1] = RBR
              THEN [ok |-> TRUE, val |-> JList(<<>>), next |-> p + 2]
              ELSE ParseItems(s, p + 1, <<>>)
    ELSE JsonErr("Expecting value")

Loads(s) ==
    LET v == ParseValue(s, 1) IN
    IF ~v.ok THEN v
    ELSE IF v.next <= Len(s) THEN JsonErr("Extra data")
    ELSE [ok |-> TRUE, val |-> v.val]

---------------------------------------------------------------------------
\* str(n), str.zfill, datetime.isoformat, type(v).__name__

Digit(d) ==
    CASE d = 0 -> "0" [] d = 1 -> "1" [] d = 2 -> "2" [] d = 3 -> "3"
      [] d = 4 -> "4" [] d = 5 -> "5" [] d = 6 -> "6" [] d = 7 -> "7"
      [] d = 8 -> "8" [] d = 9 -> "9"

RECURSIVE Str(_)
Str(n) == IF n < 10 THEN Digit(n) ELSE Str(n \div 10) \o Digit(n % 10)

RECURSIVE zfill(_, _)
zfill(s, width) == IF Len(s) >= width THEN s ELSE zfill("0" \o s, width)

\* The clock counts seconds of one minute; isoformat is injective on it.
isoformat(t) == "2025-01-01T00:00:" \o zfill(Str(t), 2)

PyType(v) ==
    CASE v.t = "null" -> "NoneType"
      [] v.t = "num" -> "int"
      [] v.t = "str" -> "str"
      [] v.t = "list" -> "list"
      [] v.t = "obj" -> "dict"

\* The value of the c-th datetime.now() call (c from 0) of a parser entered at
\* t0, when the clock ticks once, at call `tick`, while the parser runs.
Reading(t0, tick, c) == IF c >= tick THEN t0 + 1 ELSE t0

---------------------------------------------------------------------------
\* AnthropicService._parse_response (app/services/anthropic_service.py)

model == "claude-3-5-sonnet-20241022"

Returned(d) == [exc |-> "none", ret |-> d]
Raise(e, m) == [exc |-> e, msg |-> m]

\* Mutants of the bracket test: `and` for `or`, and the end test left out.
NoJsonArrayBoth(start_idx, end_idx) == start_idx = -1 /\ end_idx = 0
NoJsonArrayStartOnly(start_idx, end_idx) == start_idx = -1

\* start_idx == -1 or end_idx == 0
NoJsonArray(start_idx, end_idx) == start_idx = -1 \/ end_idx = 0

\* Mutant: the 0-based index for the 1-based position.
TestIdFromZero(i) == "TC" \o zfill(Str(i), 3)

\* f"TC{str(i+1).zfill(3)}"
TestId(i) == "TC" \o zfill(Str(i + 1), 3)

\* Mutant: setdefault, which keeps a falsy test_id that is present.
EnsureTestIdIfAbsent(tc, i) == SetDefault(tc, "test_id", JStr(TestId(i)))

\* if not test_case.get('test_id'): test_case['test_id'] = ...
EnsureTestId(tc, i) ==
    IF ~Truthy(Get(tc, "test_id"))
    THEN SetItem(tc, "test_id", JStr(TestId(i)))
    ELSE tc

\* Mutant: setdefault, which keeps a generated_at of the model output.
StampIfAbsent(tc, t) == SetDefault(tc, "generated_at", JStr(isoformat(t)))

\* test_case['generated_at'] = datetime.now().isoformat()
StampGeneratedAt(tc, t) == SetItem(tc, "generated_at", JStr(isoformat(t)))

\* Mutant: isinstance(..., (str, list)), which wraps a list again.
CoerceWrapList(tc) ==
    LET steps == Get(tc, "test_steps") IN
    IF steps.t \in {"str", "list"} THEN SetItem(tc, "test_steps", JList(<<steps>>))
    ELSE SetItem(tc, "test_steps", JList(<<JStr("Invalid test steps format")>>))

\* isinstance(..., str) -> [steps]; not isinstance(..., list) -> sentinel
CoerceTestSteps(tc) ==
    LET steps == Get(tc, "test_steps") IN
    IF steps.t = "str" THEN SetItem(tc, "test_steps", JList(<<steps>>))
    ELSE IF steps.t # "list"
         THEN SetItem(tc, "test_steps", JList(<<JStr("Invalid test steps format")>>))
    ELSE tc

\* the eight setdefault calls, in the order of the code
Defaults(i) ==
    << <<"title", "Test Case " \o Str(i + 1)>>,
       <<"description", "No description provided">>,
       <<"test_type", "Functional">>,
       <<"priority", "Medium">>,
       <<"preconditions", "No specific preconditions">>,
       <<"expected_result", "No expected result specified">>,
       <<"test_data", "No test data required">>,
       <<"category", "Positive">> >>

\* Mutant: plain assignment, which overwrites what the record carries.
RECURSIVE OverwriteDefaults(_, _, _)
OverwriteDefaults(tc, table, n) ==
    IF n > Len(table) THEN tc
    ELSE OverwriteDefaults(SetItem(tc, table[n][1], JStr(table[n][2])), table, n + 1)

RECURSIVE ApplyDefaults(_, _, _)
ApplyDefaults(tc, table, n) ==
    IF n > Len(table) THEN tc
    ELSE ApplyDefaults(SetDefault(tc, table[n][1], JStr(table[n][2])), table, n + 1)

\* Mutant: a loop body that also resets test_type to the catalog's default.
EnhanceTestCaseResetType(tc, i, t) ==
    SetItem(ApplyDefaults(CoerceTestSteps(StampGeneratedAt(EnsureTestId(tc, i), t)),
                          Defaults(i), 1),
            "test_type", JStr("Functional"))

\* one pass of the loop body on a dict
EnhanceTestCase(tc, i, t) ==
    ApplyDefaults(CoerceTestSteps(StampGeneratedAt(EnsureTestId(tc, i), t)),
                  Defaults(i), 1)

\* Mutant: insert(0, test_case) for append(test_case).
PrependCase(enhanced, tc) == <<tc>> \o enhanced

\* enhanced_test_cases.append(test_case)
AppendCase(enhanced, tc) == Append(enhanced, tc)

\* for i, test_case in enumerate(test_cases): test_case.get raises
\* AttributeError on an element that is not a dict.
RECURSIVE EnhanceLoop(_, _, _, _, _)
EnhanceLoop(test_cases, i, enhanced, t0, tick) ==
    IF i >= Len(test_cases) THEN Returned(enhanced)
    ELSE LET test_case == test_cases[i + 1] IN
         IF test_case.t # "obj"
         THEN Raise("AttributeError",
                    "'" \o PyType(test_case) \o "' object has no attribute 'get'")
         ELSE EnhanceLoop(test_cases, i + 1,
                  AppendCase(enhanced,
                             EnhanceTestCase(test_case.o, i, Reading(t0, tick, i))),
                  t0, tick)

\* the body of the try block
ParseBody(text, t0, tick) ==
    LET start_idx == Find(text, LBR)
        end_idx == RFind(text, RBR) + 1
    IN  IF NoJsonArray(start_idx, end_idx)
        THEN Returned([error |-> "No JSON array found in response"])
        ELSE LET loaded == Loads(Slice(text, start_idx, end_idx)) IN
             IF ~loaded.ok THEN Raise("JSONDecodeError", loaded.msg)
             ELSE LET looped == EnhanceLoop(loaded.val.l, 0, <<>>, t0, tick) IN
                  IF looped.exc # "none" THEN looped
                  ELSE Returned(
                         [success |-> TRUE,
                          test_cases |-> looped.ret,
                          total_count |-> Len(looped.ret),
                          generated_at |->
                              isoformat(Reading(t0, tick, Len(looped.ret))),
                          model_used |-> model])

\* Mutant: the `except Exception` clause left out.
ExceptJsonOnly(body) ==
    IF body.exc = "JSONDecodeError"
    THEN Returned([error |-> "Invalid JSON in response: " \o body.msg])
    ELSE body

\* Mutant: the failure carries an empty test_cases next to the message.
ExceptClausesWithCases(body) ==
    IF body.exc = "none" THEN body
    ELSE IF body.exc = "JSONDecodeError"
         THEN Returned([test_cases |-> <<>>,
                        error |-> "Invalid JSON in response: " \o body.msg])
    ELSE Returned([test_cases |-> <<>>, error |-> "Error parsing response: " \o body.msg])

\* except json.JSONDecodeError / except Exception
ExceptClauses(body) ==
    IF body.exc = "none" THEN body
    ELSE IF body.exc = "JSONDecodeError"
         THEN Returned([error |-> "Invalid JSON in response: " \o body.msg])
    ELSE Returned([error |-> "Error parsing response: " \o body.msg])

_parse_response(text, t0, tick) == ExceptClauses(ParseBody(text, t0, tick))

---------------------------------------------------------------------------
\* parse_claude_response (app.py)

AppDefaults(i) ==
    << <<"test_id", TestId(i)>>,
       <<"title", "Test Case " \o Str(i + 1)>>,
       <<"description", "No description">>,
       <<"test_type", "Functional">>,
       <<"priority", "Medium">>,
       <<"preconditions", "None">>,
       <<"expected_result", "Verify functionality">>,
       <<"test_data", "N/A">>,
       <<"category", "Positive">> >>

\* if not isinstance(test_case.get('test_steps'), list): sentinel
AppCoerceTestSteps(tc) ==
    IF Get(tc, "test_steps").t # "list"
    THEN SetItem(tc, "test_steps", JList(<<JStr("No steps provided")>>))
    ELSE tc

AppEnhanceTestCase(tc, i, t) ==
    StampGeneratedAt(AppCoerceTestSteps(ApplyDefaults(tc, AppDefaults(i), 1)), t)

RECURSIVE AppEnhanceLoop(_, _, _, _, _)
AppEnhanceLoop(test_cases, i, enhanced, t0, tick) ==
    IF i >= Len(test_cases) THEN Returned(enhanced)
    ELSE LET test_case == test_cases[i + 1] IN
         IF test_case.t # "obj"
         THEN Raise("AttributeError",
                    "'" \o PyType(test_case) \o "' object has no attribute 'setdefault'")
         ELSE AppEnhanceLoop(test_cases, i + 1,
                  Append(enhanced,
                         AppEnhanceTestCase(test_case.o, i, Reading(t0, tick, i))),
                  t0, tick)

AppParseBody(text, t0, tick) ==
    LET start_idx == Find(text, LBR)
        end_idx == RFind(text, RBR) + 1
    IN  IF start_idx = -1 \/ end_idx = 0
        THEN Returned([error |-> "No JSON array found in response"])
        ELSE LET loaded == Loads(Slice(text, start_idx, end_idx)) IN
             IF ~loaded.ok THEN Raise("JSONDecodeError", loaded.msg)
             ELSE LET looped == AppEnhanceLoop(loaded.val.l, 0, <<>>, t0, tick) IN
                  IF looped.exc # "none" THEN looped
                  ELSE Returned(
                         [success |-> TRUE,
                          test_cases |-> looped.ret,
                          total_count |-> Len(looped.ret),
                          generated_at |->
                              isoformat(Reading(t0, tick, Len(looped.ret))),
                          model_used |-> "Claude 3.5 Sonnet"])

parse_claude_response(text, t0, tick) ==
    LET body == AppParseBody(text, t0, tick) IN
    IF body.exc = "none" THEN body
    ELSE IF body.exc = "JSONDecodeError"
         THEN Returned([error |-> "Invalid JSON: " \o body.msg])
    ELSE Returned([error |-> "Parsing error: " \o body.msg])

---------------------------------------------------------------------------
\* Response texts the model output is drawn from.

FieldNames ==
    {"test_id", "title", "description", "test_type", "priority", "preconditions",
     "test_steps", "expected_result", "test_data", "category", "generated_at"}

DefaultedFields ==
    {"title", "description", "test_type", "priority", "preconditions",
     "expected_result", "test_data", "category"}

\* A record as the prompt asks for it, every field filled.
FullDict ==
    [test_id |-> JStr("TC001"),
     title |-> JStr("Login succeeds"),
     description |-> JStr("Valid credentials open the dashboard"),
     test_type |-> JStr("Security"),
     priority |-> JStr("High"),
     preconditions |-> JStr("User exists"),
     test_steps |-> JList(<<JStr("a"), JStr("b")>>),
     expected_result |-> JStr("Dashboard shown"),
     test_data |-> JStr("user/pass"),
     category |-> JStr("Negative"),
     generated_at |-> JStr("1999-12-31T23:59:59")]

FieldValues(f) ==
    CASE f = "test_id" ->
           {JNull, JStr(""), JNum(0), JStr("TC001"), JStr("TC002"), JNum(7)}
      [] f = "generated_at" ->
           {JNull, JStr("1999-12-31T23:59:59"), JStr(isoformat(0))}
      [] f = "test_steps" ->
           {JNull, JStr(""), JStr("click button"), JNum(3), JObj(EmptyDict),
            JList(<<>>), JList(<<JStr("a"), JStr("b")>>), JList(<<JNum(1)>>)}
      [] f = "test_type" -> {JNull, JStr(""), JStr("Functional"), JStr("Bogus")}
      [] f = "priority" -> {JNull, JStr(""), JStr("Low"), JStr("Urgent")}
      [] OTHER -> {JNull, JStr(""), JStr("given")}

Without(d, f) == [k \in DOMAIN d \ {f} |-> d[k]]

\* Objects that differ from the empty or the full record in one field.
ObjPool ==
    {EmptyDict, FullDict}
    \cup {Without(FullDict, f) : f \in FieldNames}
    \cup UNION {{SetItem(base, f, v) : v \in FieldValues(f)} :
                  base \in {EmptyDict, FullDict}, f \in FieldNames}

\* Objects that differ in test_id and generated_at only.
IdPool ==
    {EmptyDict}
    \cup {SetItem(EmptyDict, "test_id", v) :
            v \in {JStr(""), JNum(0), JStr("TC001"), JStr("TC002")}}
    \cup {SetItem(SetItem(EmptyDict, "test_id", v), "generated_at", g) :
            v \in {JNull, JStr("TC002")},
            g \in {JStr("1999-12-31T23:59:59"), JStr(isoformat(0))}}

RECURSIVE ArrayBody(_)
\* The text of a JSON array of the given objects: [ o1 , o2 , ... ]
ArrayBody(objs) ==
    IF Len(objs) = 0 THEN <<>>
    ELSE IF Len(objs) = 1 THEN <<JObj(objs[1])>>
    ELSE <<JObj(objs[1]), COMMA>> \o ArrayBody(Tail(objs))

ArrayText(objs) == <<LBR>> \o ArrayBody(objs) \o <<RBR>>

\* Every text of at most MaxLen tokens over the characters the parser
\* tells apart.
Alphabet == {PROSE, LBR, RBR, COMMA, JNum(1), JObj(EmptyDict)}

TokenTexts == UNION {[1..n -> Alphabet] : n \in 0..MaxLen}

\* One record, bare and inside prose.
SingleTexts ==
    {ArrayText(<<o>>) : o \in ObjPool}
    \cup {<<PROSE>> \o ArrayText(<<o>>) \o <<PROSE>> : o \in {EmptyDict, FullDict}}

\* Arrays of up to MaxElems records with supplied and missing ids.
IdTexts == UNION {{ArrayText(objs) : objs \in [1..n -> IdPool]} : n \in 0..MaxElems}

\* Arrays of up to MaxArray records without ids, after an optional first
\* record that has one.
LongTexts ==
    {ArrayText([j \in 1..n |-> IF j = 1 THEN first ELSE EmptyDict]) :
        n \in 1..MaxArray,
        first \in {EmptyDict, SetItem(EmptyDict, "test_id", JStr("LOGIN-1"))}}

\* "Sure! [1,2,"
SureText == <<PROSE, LBR, JNum(1), COMMA, JNum(2), COMMA>>

ExampleTexts ==
    {SureText,
     <<LBR, JNum(1), COMMA, JNum(2), RBR>>,
     <<LBR, JObj(EmptyDict), COMMA, JNum(1), RBR>>,
     <<LBR, JNum(1), RBR, PROSE, LBR, JNum(2), RBR>>,
     <<LBR, JNum(1), COMMA, JNum(2), COMMA, RBR>>}

Texts == TokenTexts \cup SingleTexts \cup IdTexts \cup LongTexts \cup ExampleTexts

---------------------------------------------------------------------------
\* The state machine: the model answers with a text, the clock runs, and
\* one of the two parsers is called on the text.

NoResult == [pending |-> TRUE]

\* A service that has not been called.
NotCalled == [called |-> FALSE]

CallersIdle ==
    /\ data = NotCalled
    /\ verdict = NotCalled
    /\ to_export = NotCalled
    /\ exported = NotCalled

\* No generate call has come in.
GenerateIdle ==
    /\ request = NotCalled
    /\ hpc = "idle"
    /\ caller = "none"
    /\ posts = 0
    /\ outbound = NotCalled
    /\ upstream = NotCalled
    /\ response = NotCalled
    /\ calls = NotCalled
    /\ frames = NotCalled

ServicesIdle == CallersIdle /\ api_key = TRUE /\ GenerateIdle

Init ==
    /\ response_text \in Texts
    /\ now = 0
    /\ pc = "ready"
    /\ result = NoResult
    /\ raised = "none"
    /\ call_now = 0
    /\ call_tick = 0
    /\ ServicesIdle

\* The clock advances while the request waits for the model's answer.
Tick ==
    /\ pc = "ready"
    /\ now < MaxClock
    /\ now' = now + 1
    /\ UNCHANGED <<response_text, pc, result, raised, call_now, call_tick>>
    /\ UNCHANGED service_vars

\* datetime.now() calls a parser made: one per record and one for the result.
NowCalls(out) ==
    IF out.exc = "none" /\ "success" \in DOMAIN out.ret
    THEN out.ret.total_count + 1
    ELSE 0

\* The effect of a call whose outcome is `out`, the clock ticking at the
\* parser's datetime.now() call `tick` (never, when tick = Len(response_text)).
Called(out, tick, who) ==
    /\ tick < NowCalls(out) \/ tick = Len(response_text)
    /\ tick < NowCalls(out) => now < MaxClock
    /\ pc' = who
    /\ result' = IF out.exc = "none" THEN out.ret ELSE NoResult
    /\ raised' = out.exc
    /\ call_now' = now
    /\ call_tick' = tick
    /\ now' = IF tick < NowCalls(out) THEN now + 1 ELSE now
    /\ UNCHANGED <<response_text, service_vars>>

ParseResponse ==
    /\ pc = "ready"
    /\ \E tick \in 0..Len(response_text) :
          Called(_parse_response(response_text, now, tick), tick, "svc")

ParseClaudeResponse ==
    /\ pc = "ready"
    /\ \E tick \in 0..Len(response_text) :
          Called(parse_claude_response(response_text, now, tick), tick, "app")

Next == Tick \/ ParseResponse \/ ParseClaudeResponse

Spec == Init /\ [][Next]_vars

---------------------------------------------------------------------------
\* Vocabulary of the properties, stated on the text and the result without
\* the parser's own operators.

HasToken(text, tok) == \E i \in 1..Len(text) : text[i] = tok

\* The substring from the first '[' to the last ']', inclusive.
Between(text) ==
    LET first == CHOOSE i \in 1..Len(text) :
                    text[i] = LBR /\ \A j \in 1..(i-1) : text[j] # LBR
        last == CHOOSE i \in 1..Len(text) :
                    text[i] = RBR /\ \A j \in (i+1)..Len(text) : text[j] # RBR
    IN  [j \in 1..(last - first + 1) |-> text[first + j - 1]]

Depth(s, i) ==
    Cardinality({j \in 1..i : s[j] = LBR}) - Cardinality({j \in 1..i : s[j] = RBR})

StartsValue(tok) == tok = LBR \/ tok.t \in ScalarTags
EndsValue(tok) == tok = RBR \/ tok.t \in ScalarTags

\* JSON's grammar of arrays, as what may follow what inside the outer brackets.
MayFollow(a, b) ==
    \/ a = LBR /\ (StartsValue(b) \/ b = RBR)
    \/ a = COMMA /\ StartsValue(b)
    \/ EndsValue(a) /\ (b = COMMA \/ b = RBR)

ValidJsonArray(s) ==
    /\ Len(s) >= 2
    /\ s[1] = LBR
    /\ Depth(s, Len(s)) = 0
    /\ \A i \in 1..(Len(s) - 1) : Depth(s, i) >= 1 /\ MayFollow(s[i], s[i + 1])

\* The text carries a well-formed JSON array of objects between its first
\* '[' and its last ']'.
WellFormed(text) ==
    /\ HasToken(text, LBR)
    /\ HasToken(text, RBR)
    /\ LET s == Between(text) IN
       /\ Len(s) >= 2
       /\ s[1] = LBR
       /\ s[Len(s)] = RBR
       /\ Len(s) = 2 \/ Len(s) % 2 = 1
       /\ \A j \in 2..(Len(s) - 1) :
             IF j % 2 = 0 THEN s[j].t = "obj" ELSE s[j] = COMMA

\* The objects of a well-formed text, in array order.
Elements(text) ==
    LET s == Between(text) IN [j \in 1..((Len(s) - 1) \div 2) |-> s[2 * j].o]

Succeeded == pc # "ready" /\ raised = "none" /\ "success" \in DOMAIN result
Failed == pc # "ready" /\ raised = "none" /\ "error" \in DOMAIN result

JsonMessages == {"Expecting value", "Expecting ',' delimiter", "Extra data"}

NoJsonFound == Failed /\ result.error = "No JSON array found in response"

MalformedJson ==
    /\ Failed
    /\ \E m \in JsonMessages :
          result.error \in {"Invalid JSON in response: " \o m, "Invalid JSON: " \o m}

---------------------------------------------------------------------------
\* C1: neither parser ever raises; on a text that carries no well-formed
\* array of objects the result is an error value without any records.
C1_NeverRaises ==
    pc # "ready" =>
        /\ raised = "none"
        /\ ~WellFormed(response_text) =>
              /\ "error" \in DOMAIN result
              /\ "test_cases" \notin DOMAIN result
              /\ "success" \notin DOMAIN result

\* [{}, 1]: the first element was normalized before the second one failed.
C1_Witness ==
    /\ pc = "svc"
    /\ response_text = <<LBR, JObj(EmptyDict), COMMA, JNum(1), RBR>>
    /\ Failed
    /\ result.error = "Error parsing response: 'int' object has no attribute 'get'"

\* C2: a well-formed array of N objects gives N records, in array order,
\* and total_count N.
C2_AllRecordsInOrder ==
    (pc = "svc" /\ WellFormed(response_text)) =>
        /\ Succeeded
        /\ LET elems == Elements(response_text) IN
           /\ Len(result.test_cases) = Len(elems)
           /\ result.total_count = Len(elems)
           /\ \A i \in 1..Len(elems) :
                 /\ \A k \in DOMAIN elems[i] \ {"generated_at", "test_steps", "test_id"} :
                       result.test_cases[i][k] = elems[i][k]
                 /\ ("test_id" \in DOMAIN elems[i]
                        /\ elems[i].test_id.t = "str" /\ elems[i].test_id.s # "")
                       => result.test_cases[i].test_id = elems[i].test_id

C2_Witness ==
    /\ pc = "svc"
    /\ Succeeded
    /\ response_text =
          ArrayText(<<SetItem(EmptyDict, "test_id", JStr("TC002")),
                      SetItem(EmptyDict, "test_id", JStr("TC001"))>>)
    /\ result.total_count = 2
    /\ result.test_cases[1].test_id = JStr("TC002")
    /\ result.test_cases[2].test_id = JStr("TC001")

\* C3: a text without '[' or without ']' fails with "No JSON array found in
\* response", in both parsers.
C3_NoJsonFound ==
    (pc # "ready" /\ (~HasToken(response_text, LBR) \/ ~HasToken(response_text, RBR)))
        => (raised = "none" /\ result = [error |-> "No JSON array found in response"])

C3_Witness ==
    /\ pc = "svc"
    /\ response_text = <<PROSE, LBR, JNum(1)>>
    /\ NoJsonFound

\* The brackets of the text do not pair up.
Unbalanced(text) ==
    \/ Depth(text, Len(text)) # 0
    \/ \E i \in 1..Len(text) : Depth(text, i) < 0

\* C4 as stated: a text with a '[' whose brackets are unbalanced, such as
\* "Sure! [1,2,", fails with MalformedJson.
C4_Original ==
    (pc = "svc" /\ HasToken(response_text, LBR) /\ Unbalanced(response_text))
        => MalformedJson

\* C4, amended: a text with a '[' and no ']' fails with NoJsonFound, and the
\* failure is MalformedJson exactly when both brackets are there and the
\* substring from the first '[' to the last ']' is not valid JSON.
C4_Amended ==
    pc = "svc" =>
        /\ (HasToken(response_text, LBR) /\ ~HasToken(response_text, RBR))
              => NoJsonFound
        /\ MalformedJson <=>
              (/\ HasToken(response_text, LBR)
               /\ HasToken(response_text, RBR)
               /\ ~ValidJsonArray(Between(response_text)))

C4_Witness ==
    /\ pc = "svc"
    /\ response_text = SureText
    /\ NoJsonFound

\* The ids of the first positions, written out.
IdTable ==
    <<"TC001", "TC002", "TC003", "TC004", "TC005", "TC006", "TC007", "TC008",
      "TC009", "TC010", "TC011", "TC012", "TC013", "TC014">>

\* C5: a record whose test_id is absent, null, "" or 0 gets the id of its
\* 1-based position, zero-padded to three digits; any other test_id is kept.
C5_PositionalId ==
    (pc = "svc" /\ WellFormed(response_text)) =>
        /\ Succeeded
        /\ \A i \in 1..Len(Elements(response_text)) :
              LET e == Elements(response_text)[i]
                  r == result.test_cases[i]
              IN  IF "test_id" \notin DOMAIN e
                     \/ e.test_id \in {JNull, JStr(""), JNum(0)}
                  THEN r.test_id = JStr(IdTable[i])
                  ELSE r.test_id = e.test_id

\* The 12th record is the 11th one without an id, and is TC012.
C5_Witness ==
    /\ pc = "svc"
    /\ Succeeded
    /\ result.total_count = 12
    /\ Elements(response_text)[1] = SetItem(EmptyDict, "test_id", JStr("LOGIN-1"))
    /\ result.test_cases[1].test_id = JStr("LOGIN-1")
    /\ result.test_cases[12].test_id = JStr("TC012")

\* C6 as stated: no two records of a successful result share a test_id.
C6_UniqueIds ==
    (pc = "svc" /\ Succeeded) =>
        \A i, j \in 1..Len(result.test_cases) :
            i # j => result.test_cases[i].test_id # result.test_cases[j].test_id

SentinelSteps ==
    {JList(<<JStr("Invalid test steps format")>>), JList(<<JStr("No steps provided")>>)}

\* C7 as stated: a string s becomes [s], a list is kept, anything else
\* becomes the one-element sentinel list; in both parsers.
C7_StepsCoerced ==
    (pc # "ready" /\ WellFormed(response_text)) =>
        /\ Succeeded
        /\ \A i \in 1..Len(Elements(response_text)) :
              LET e == Elements(response_text)[i]
                  out == result.test_cases[i].test_steps
              IN  IF "test_steps" \in DOMAIN e /\ e.test_steps.t = "str"
                  THEN out = JList(<<e.test_steps>>)
                  ELSE IF "test_steps" \in DOMAIN e /\ e.test_steps.t = "list"
                  THEN out = e.test_steps
                  ELSE out \in SentinelSteps

\* C8 as stated: test_steps of every returned record is a non-empty sequence
\* of strings.
C8_StepsNonEmptyStrings ==
    (pc = "svc" /\ Succeeded) =>
        \A i \in 1..Len(result.test_cases) :
            LET out == result.test_cases[i].test_steps IN
            /\ out.t = "list"
            /\ out.l # <<>>
            /\ \A j \in 1..Len(out.l) : out.l[j].t = "str"

\* The default table of the specification.
TableDefault(f, i) ==
    CASE f = "title" -> "Test Case " \o Str(i)
      [] f = "description" -> "No description provided"
      [] f = "test_type" -> "Functional"
      [] f = "priority" -> "Medium"
      [] f = "preconditions" -> "No specific preconditions"
      [] f = "expected_result" -> "No expected result specified"
      [] f = "test_data" -> "No test data required"
      [] f = "category" -> "Positive"

\* C9 as stated: a field of the table that is absent, null or "" in the
\* element carries the default in the record, so no record has such a
\* field absent or empty.
C9_DefaultsFilled ==
    (pc = "svc" /\ WellFormed(response_text)) =>
        /\ Succeeded
        /\ \A i \in 1..Len(Elements(response_text)) :
              \A f \in DefaultedFields :
                 LET e == Elements(response_text)[i]
                     r == result.test_cases[i]
                 IN  /\ f \in DOMAIN r
                     /\ r[f] \notin {JNull, JStr("")}
                     /\ (f \notin DOMAIN e \/ e[f] \in {JNull, JStr("")})
                           => r[f] = JStr(TableDefault(f, i))

---------------------------------------------------------------------------
\* The texts that differ from `text` in the generated_at of one element only.
GeneratedAtValues ==
    {JNull, JStr("1999-12-31T23:59:59"), JStr(isoformat(1))}

GeneratedAtVariants(text) ==
    {[text EXCEPT ![p] = JObj(Without(text[p].o, "generated_at"))] :
        p \in {q \in 1..Len(text) : text[q].t = "obj"}}
    \cup {[text EXCEPT ![p] = JObj(SetItem(text[p].o, "generated_at", g))] :
            p \in {q \in 1..Len(text) : text[q].t = "obj"}, g \in GeneratedAtValues}

Parser(who, text, t0, tick) ==
    IF who = "svc" THEN _parse_response(text, t0, tick)
    ELSE parse_claude_response(text, t0, tick)

\* C10: generated_at of every record is a reading of the clock taken while
\* the parser ran, and the whole result is the same for every text that
\* differs in the generated_at of its elements only.
C10_GeneratedAtStamped ==
    Succeeded =>
        /\ \A i \in 1..Len(result.test_cases) :
              result.test_cases[i].generated_at
                 \in {JStr(isoformat(call_now)), JStr(isoformat(call_now + 1))}
        /\ \A i \in 1..Len(result.test_cases) :
              result.test_cases[i].generated_at = JStr(isoformat(call_now + 1))
                 => now > call_now
        /\ \A other \in GeneratedAtVariants(response_text) :
              Parser(pc, other, call_now, call_tick) = Returned(result)

\* The model output carried a generated_at of 1999 and the parser ran later.
C10_Witness ==
    /\ pc = "svc"
    /\ Succeeded
    /\ result.total_count = 1
    /\ Elements(response_text)[1] = FullDict
    /\ call_now = 1
    /\ result.test_cases[1].generated_at = JStr(isoformat(1))

---------------------------------------------------------------------------
\* Feeding the parser its own output: json.dumps of the records of a
\* successful result is the text of a second call.

Refeed ==
    /\ pc = "svc"
    /\ raised = "none"
    /\ "success" \in DOMAIN result
    /\ LET text == ArrayText(result.test_cases) IN
       \E tick \in 0..Len(text) :
          LET out == _parse_response(text, now, tick) IN
          /\ tick < NowCalls(out) \/ tick = Len(text)
          /\ tick < NowCalls(out) => now < MaxClock
          /\ pc' = "refed"
          /\ response_text' = text
          /\ result' = IF out.exc = "none" THEN out.ret ELSE NoResult
          /\ raised' = out.exc
          /\ call_now' = now
          /\ call_tick' = tick
          /\ now' = IF tick < NowCalls(out) THEN now + 1 ELSE now
    /\ UNCHANGED service_vars

NextRefeed == Tick \/ ParseResponse \/ Refeed

SpecRefeed == Init /\ [][NextRefeed]_vars

\* C11: the second pass succeeds and returns, record by record, the fields
\* of the first pass (which the text of the second call carries), except
\* for generated_at.
C11_Idempotent ==
    pc = "refed" =>
        /\ Succeeded
        /\ LET first == Elements(response_text) IN
           /\ Len(result.test_cases) = Len(first)
           /\ \A i \in 1..Len(first) :
                 /\ DOMAIN result.test_cases[i] = DOMAIN first[i]
                 /\ \A f \in DOMAIN first[i] \ {"generated_at"} :
                       result.test_cases[i][f] = first[i][f]

\* The first pass wrapped the string and stamped at one instant, the second
\* pass kept the list and stamped at a later one.
C11_Witness ==
    /\ pc = "refed"
    /\ Succeeded
    /\ result.total_count = 1
    /\ result.test_cases[1].test_steps = JList(<<JStr("click button")>>)
    /\ result.test_cases[1].test_id = JStr("TC001")
    /\ result.test_cases[1].generated_at # Elements(response_text)[1].generated_at

---------------------------------------------------------------------------
\* The validation service (src/app/services/validation_service.py).
\*
\* A str of a request whose length and surrounding whitespace matter is a
\* sequence of chunks: one whitespace character, or a run of characters
\* with no whitespace in it.  A bool is a value of its own.

JText(chunks) == [t |-> "text", chunks |-> chunks]
JBool(b) == [t |-> "bool", b |-> b]

Whitespace == {" ", "\n", "\t"}

\* n copies of the character c, as one chunk.
RECURSIVE Run(_, _)
Run(c, n) ==
    IF n = 0 THEN ""
    ELSE IF n % 2 = 0 THEN LET half == Run(c, n \div 2) IN half \o half
    ELSE c \o Run(c, n - 1)

\* n whitespace characters, as n chunks.
Blank(n) == [i \in 1..n |-> " "]

RECURSIVE lstrip(_)
lstrip(chunks) ==
    IF chunks # <<>> /\ Head(chunks) \in Whitespace
    THEN lstrip(Tail(chunks))
    ELSE chunks

RECURSIVE rstrip(_)
rstrip(chunks) ==
    IF chunks # <<>> /\ chunks[Len(chunks)] \in Whitespace
    THEN rstrip(SubSeq(chunks, 1, Len(chunks) - 1))
    ELSE chunks

\* str.strip()
strip(chunks) == rstrip(lstrip(chunks))

\* len(str)
RECURSIVE len(_)
len(chunks) == IF chunks = <<>> THEN 0 ELSE Len(Head(chunks)) + len(Tail(chunks))

\* `not v`
Not(v) ==
    CASE v.t = "text" -> v.chunks = <<>>
      [] v.t = "bool" -> ~v.b
      [] OTHER -> ~Truthy(v)

\* isinstance(v, str)
IsStr(v) == v.t \in {"str", "text"}

\* type(v).__name__
TypeName(v) ==
    CASE v.t = "text" -> "str"
      [] v.t = "bool" -> "bool"
      [] OTHER -> PyType(v)

\* The elements of a list, as a set.
Range(l) == {l[i] : i \in 1..Len(l)}

\* sep.join(items) of str items
RECURSIVE JoinStrs(_, _)
JoinStrs(sep, items) ==
    IF items = <<>> THEN ""
    ELSE IF Len(items) = 1 THEN items[1].s
    ELSE items[1].s \o sep \o JoinStrs(sep, Tail(items))

\* sep.join(items): TypeError at the first item that is no str.
Join(sep, items) ==
    IF \A i \in 1..Len(items) : IsStr(items[i])
    THEN Returned(JoinStrs(sep, items))
    ELSE LET i == CHOOSE i \in 1..Len(items) :
                     /\ ~IsStr(items[i])
                     /\ \A j \in 1..(i - 1) : IsStr(items[j])
         IN Raise("TypeError",
                  "sequence item " \o Str(i - 1) \o ": expected str instance, "
                      \o TypeName(items[i]) \o " found")

\* src/app/utils/constants.py
TEST_TYPES ==
    <<JStr("Functional"), JStr("Security"), JStr("UAT"), JStr("Performance"),
      JStr("Integration"), JStr("Usability"), JStr("Accessibility")>>
PRIORITY_LEVELS == <<JStr("Low"), JStr("Medium"), JStr("High")>>
COMPLEXITY_LEVELS == <<JStr("Simple"), JStr("Medium"), JStr("Complex")>>

\* ValidationService.__init__
max_title_length == 200
max_criteria_length == 5000
min_title_length == 10
min_criteria_length == 20

\* {"valid": True, "error": None} and {"valid": False, "error": msg}
Valid == [valid |-> TRUE, error |-> "None"]
Invalid(msg) == [valid |-> FALSE, error |-> msg]

\* Mutant of the title rule: the length is taken before trimming.
validate_user_story_title_untrimmed(title) ==
    IF Not(title) THEN Invalid("User story title is required")
    ELSE IF ~IsStr(title) THEN Invalid("User story title must be a string")
    ELSE IF len(title.chunks) < min_title_length
         THEN Invalid("User story title must be at least "
                          \o Str(min_title_length) \o " characters long")
    ELSE IF len(title.chunks) > max_title_length
         THEN Invalid("User story title cannot exceed "
                          \o Str(max_title_length) \o " characters")
    ELSE Valid

validate_user_story_title(title) ==
    IF Not(title) THEN Invalid("User story title is required")
    ELSE IF ~IsStr(title) THEN Invalid("User story title must be a string")
    ELSE LET stripped == strip(title.chunks) IN
         IF len(stripped) < min_title_length
         THEN Invalid("User story title must be at least "
                          \o Str(min_title_length) \o " characters long")
         ELSE IF len(stripped) > max_title_length
         THEN Invalid("User story title cannot exceed "
                          \o Str(max_title_length) \o " characters")
         ELSE Valid

validate_acceptance_criteria(criteria) ==
    IF Not(criteria) THEN Invalid("Acceptance criteria is required")
    ELSE IF ~IsStr(criteria) THEN Invalid("Acceptance criteria must be a string")
    ELSE LET stripped == strip(criteria.chunks) IN
         IF len(stripped) < min_criteria_length
         THEN Invalid("Acceptance criteria must be at least "
                          \o Str(min_criteria_length) \o " characters long")
         ELSE IF len(stripped) > max_criteria_length
         THEN Invalid("Acceptance criteria cannot exceed "
                          \o Str(max_criteria_length) \o " characters")
         ELSE Valid

validate_test_types(test_types) ==
    IF Not(test_types)
    THEN Returned(Invalid("At least one test type must be selected"))
    ELSE IF test_types.t # "list"
    THEN Returned(Invalid("Test types must be provided as a list"))
    ELSE LET invalid_types ==
                 SelectSeq(test_types.l, LAMBDA x : x \notin Range(TEST_TYPES))
             joined == Join(", ", invalid_types)
         IN IF invalid_types # <<>>
            THEN IF joined.exc # "none" THEN joined
                 ELSE Returned(Invalid("Invalid test types: " \o joined.ret))
            ELSE IF Len(test_types.l) # Cardinality(Range(test_types.l))
            THEN Returned(Invalid("Duplicate test types are not allowed"))
            ELSE Returned(Valid)

\* Mutant of the priority rule: the isinstance test left out.
validate_priority_level_untyped(priority) ==
    IF Not(priority) THEN Valid
    ELSE IF priority \notin Range(PRIORITY_LEVELS)
    THEN Invalid("Invalid priority level. Must be one of: "
                     \o JoinStrs(", ", PRIORITY_LEVELS))
    ELSE Valid

validate_priority_level(priority) ==
    IF Not(priority) THEN Valid
    ELSE IF ~IsStr(priority) THEN Invalid("Priority level must be a string")
    ELSE IF priority \notin Range(PRIORITY_LEVELS)
    THEN Invalid("Invalid priority level. Must be one of: "
                     \o JoinStrs(", ", PRIORITY_LEVELS))
    ELSE Valid

validate_complexity_level(complexity) ==
    IF Not(complexity) THEN Valid
    ELSE IF ~IsStr(complexity) THEN Invalid("Complexity level must be a string")
    ELSE IF complexity \notin Range(COMPLEXITY_LEVELS)
    THEN Invalid("Invalid complexity level. Must be one of: "
                     \o JoinStrs(", ", COMPLEXITY_LEVELS))
    ELSE Valid

boolean_fields == <<"include_edge_cases", "include_negative_cases">>

validate_boolean_flags(d) ==
    LET bad == {i \in 1..Len(boolean_fields) :
                    Get(d, boolean_fields[i]).t \notin {"null", "bool"}}
    IN IF bad = {} THEN Valid
       ELSE LET i == CHOOSE i \in bad : \A j \in bad : i <= j
            IN Invalid(boolean_fields[i] \o " must be a boolean value")

\* The try body of validate_input: the six rules in turn, the first failure
\* returned; data.get raises on a value that is no dict.
ValidateInputBody(d) ==
    IF Not(d) THEN Returned(Invalid("No input data provided"))
    ELSE IF d.t # "obj"
    THEN Raise("AttributeError",
               "'" \o TypeName(d) \o "' object has no attribute 'get'")
    ELSE LET title_validation ==
                 validate_user_story_title(Get(d.o, "user_story_title"))
             criteria_validation ==
                 validate_acceptance_criteria(Get(d.o, "acceptance_criteria"))
             test_types_validation == validate_test_types(Get(d.o, "test_types"))
             priority_validation == validate_priority_level(Get(d.o, "priority_level"))
             complexity_validation == validate_complexity_level(Get(d.o, "complexity"))
             boolean_validation == validate_boolean_flags(d.o)
         IN IF ~title_validation.valid THEN Returned(title_validation)
            ELSE IF ~criteria_validation.valid THEN Returned(criteria_validation)
            ELSE IF test_types_validation.exc # "none" THEN test_types_validation
            ELSE IF ~test_types_validation.ret.valid THEN test_types_validation
            ELSE IF ~priority_validation.valid THEN Returned(priority_validation)
            ELSE IF ~complexity_validation.valid THEN Returned(complexity_validation)
            ELSE IF ~boolean_validation.valid THEN Returned(boolean_validation)
            ELSE Returned(Valid)

\* except Exception as e
validate_input(d) ==
    LET body == ValidateInputBody(d) IN
    IF body.exc = "none" THEN body
    ELSE Returned(Invalid("Validation error: " \o body.msg))

required_fields ==
    <<"test_id", "title", "description", "test_type", "priority",
      "preconditions", "test_steps", "expected_result">>

\* repr(v); the strs of the model hold no quote and no backslash.
RECURSIVE Repr(_)
ReprItems(l) ==
    LET RECURSIVE Items(_)
        Items(i) ==
            IF i > Len(l) THEN ""
            ELSE (IF i > 1 THEN ", " ELSE "") \o Repr(l[i]) \o Items(i + 1)
    IN Items(1)
Repr(v) ==
    CASE v.t = "str" -> "'" \o v.s \o "'"
      [] v.t = "num" -> Str(v.n)
      [] v.t = "null" -> "None"
      [] v.t = "bool" -> (IF v.b THEN "True" ELSE "False")
      [] v.t = "list" -> "[" \o ReprItems(v.l) \o "]"

\* str(v)
StrOf(v) == IF v.t = "str" THEN v.s ELSE Repr(v)

\* Mutant of the record rule: a required field only has to be present.
validate_test_case_data_presence_only(test_case) ==
    LET missing == {i \in 1..Len(required_fields) :
                        required_fields[i] \notin DOMAIN test_case}
    IN IF missing # {}
       THEN LET i == CHOOSE i \in missing : \A j \in missing : i <= j
            IN Invalid("Missing required field: " \o required_fields[i])
       ELSE IF test_case.test_steps.t # "list"
       THEN Invalid("test_steps must be a list")
       ELSE IF test_case.test_type \notin Range(TEST_TYPES)
       THEN Invalid("Invalid test_type: " \o StrOf(test_case.test_type))
       ELSE IF test_case.priority \notin Range(PRIORITY_LEVELS)
       THEN Invalid("Invalid priority: " \o StrOf(test_case.priority))
       ELSE Valid

validate_test_case_data(test_case) ==
    LET failing == {i \in 1..Len(required_fields) :
                        \/ required_fields[i] \notin DOMAIN test_case
                        \/ Not(test_case[required_fields[i]])}
    IN IF failing # {}
       THEN LET i == CHOOSE i \in failing : \A j \in failing : i <= j
            IN IF required_fields[i] \notin DOMAIN test_case
               THEN Invalid("Missing required field: " \o required_fields[i])
               ELSE Invalid("Field " \o required_fields[i] \o " cannot be empty")
       ELSE IF test_case.test_steps.t # "list"
       THEN Invalid("test_steps must be a list")
       ELSE IF test_case.test_type \notin Range(TEST_TYPES)
       THEN Invalid("Invalid test_type: " \o StrOf(test_case.test_type))
       ELSE IF test_case.priority \notin Range(PRIORITY_LEVELS)
       THEN Invalid("Invalid priority: " \o StrOf(test_case.priority))
       ELSE Valid

---------------------------------------------------------------------------
\* The arguments the validation service is called with.

\* A key the caller left out of a dict.
Absent == [t |-> "absent"]

\* The dict of the pairs whose value is not Absent.
Dict(pairs) ==
    [k \in {p[1] : p \in {q \in pairs : q[2] # Absent}} |->
        (CHOOSE p \in pairs : p[1] = k)[2]]

Titles ==
    { Absent, JNull, JNum(5), JText(<<>>), JText(Blank(3)),
      JText(Blank(min_title_length)),
      JText(<<"short">>),
      JText(<<Run("x", min_title_length - 1)>>),
      JText(<<" ", Run("x", min_title_length - 1), " ">>),
      JText(<<Run("x", min_title_length)>>),
      JText(<<"As", " ", "a", " ", "user", " ", "I", " ", "want", " ", "login">>),
      JText(<<Run("x", max_title_length)>>),
      JText(<<" ", Run("x", max_title_length), "\n">>),
      JText(<<Run("x", max_title_length + 1)>>) }

Criterias ==
    { Absent, JNum(5), JText(<<>>),
      JText(<<Run("y", min_criteria_length - 1)>>),
      JText(<<Run("y", min_criteria_length)>>),
      JText(<<" ", Run("y", max_criteria_length)>>),
      JText(<<Run("y", max_criteria_length + 1)>>) }

TypeLists ==
    { JNull, JList(<<>>), JStr("Functional"), JNum(5),
      JList(<<JStr("Functional")>>),
      JList(<<JStr("Security"), JStr("UAT")>>),
      JList(<<JStr("Functional"), JStr("Functional")>>),
      JList(<<JStr("Bogus")>>),
      JList(<<JStr("functional")>>),
      JList(<<JStr("Bogus"), JStr("Bogus")>>),
      JList(<<JStr("Functional"), JStr("Functional"), JStr("Bogus")>>),
      JList(<<JStr("Bogus"), JStr("UAT"), JStr("Other")>>),
      JList(<<JNum(5)>>),
      JList(<<JStr("Bogus"), JNull>>),
      JList(<<JStr("Functional"), JBool(TRUE)>>) }

Priorities == {Absent, JStr("Medium"), JStr("Urgent"), JNum(5)}
Complexities == {Absent, JStr("Simple"), JStr("Hard")}
Flags == {Absent, JBool(TRUE), JBool(FALSE), JStr("yes")}

Requests ==
    { Dict({ <<"user_story_title", title>>, <<"acceptance_criteria", criteria>>,
             <<"test_types", IF types = JNull THEN Absent ELSE types>>,
             <<"priority_level", priority>>, <<"complexity", complexity>>,
             <<"include_edge_cases", flags[1]>>,
             <<"include_negative_cases", flags[2]>> }) :
        title \in Titles, criteria \in Criterias, types \in TypeLists,
        priority \in Priorities, complexity \in Complexities,
        flags \in {<<Absent, Absent>>, <<JBool(TRUE), JBool(FALSE)>>,
                   <<JStr("yes"), Absent>>, <<JBool(TRUE), JNum(1)>>} }

\* A record every rule accepts, and the values a field is varied over.
GoodRecord ==
    [ test_id |-> JStr("TC001"), title |-> JStr("Login works"),
      description |-> JStr("Valid login"), test_type |-> JStr("Security"),
      priority |-> JStr("High"), preconditions |-> JStr("User exists"),
      test_steps |-> JList(<<JStr("Open page"), JStr("Log in")>>),
      expected_result |-> JStr("Dashboard"), test_data |-> JStr("user/pass"),
      category |-> JStr("Negative") ]

RecordValues ==
    { Absent, JNull, JStr(""), JNum(0), JNum(7), JList(<<>>),
      JStr("Bogus"), JStr("Low"), JStr("UAT"), JList(<<JStr("step")>>) }

With(d, f, v) ==
    [k \in IF v = Absent THEN DOMAIN d \ {f} ELSE DOMAIN d \cup {f} |->
        IF k = f THEN v ELSE d[k]]

\* The records that differ from GoodRecord in at most two fields.
Records ==
    { With(With(GoodRecord, f, v), g, w) :
        f \in DOMAIN GoodRecord, v \in RecordValues,
        g \in DOMAIN GoodRecord, w \in RecordValues }

---------------------------------------------------------------------------
\* The validation service as a state machine: it keeps no state of its own,
\* so one call is followed: the step records its argument and its outcome.

ParserIdle ==
    /\ response_text = <<>>
    /\ now = 0
    /\ pc = "idle"
    /\ result = NoResult
    /\ raised = "none"
    /\ call_now = 0
    /\ call_tick = 0

InitValidate == ParserIdle /\ ServicesIdle

ValidateInput ==
    /\ data = NotCalled
    /\ \E d \in {JNull, JObj(EmptyDict), JList(<<JNum(1)>>)}
                    \cup {JObj(r) : r \in Requests} :
          /\ data' = [method |-> "validate_input", arg |-> d]
          /\ verdict' = validate_input(d)
    /\ UNCHANGED <<parse_vars, export_vars, generate_vars>>

ValidateTestTypes ==
    /\ data = NotCalled
    /\ \E test_types \in TypeLists :
          /\ data' = [method |-> "validate_test_types", arg |-> test_types]
          /\ verdict' = validate_test_types(test_types)
    /\ UNCHANGED <<parse_vars, export_vars, generate_vars>>

ValidateTestCaseData ==
    /\ data = NotCalled
    /\ \E test_case \in Records :
          /\ data' = [method |-> "validate_test_case_data", arg |-> JObj(test_case)]
          /\ verdict' = Returned(validate_test_case_data(test_case))
    /\ UNCHANGED <<parse_vars, export_vars, generate_vars>>

\* The values a level is called with.
Levels ==
    { JNull, JStr(""), JNum(0), JBool(FALSE), JList(<<>>),
      JStr("Low"), JStr("Medium"), JStr("High"), JStr("Simple"), JStr("Complex"),
      JStr("low"), JStr("Urgent"), JStr("Hard"),
      JNum(5), JBool(TRUE), JList(<<JStr("High")>>) }

ValidatePriorityLevel ==
    /\ data = NotCalled
    /\ \E priority \in Levels :
          /\ data' = [method |-> "validate_priority_level", arg |-> priority]
          /\ verdict' = Returned(validate_priority_level(priority))
    /\ UNCHANGED <<parse_vars, export_vars, generate_vars>>

ValidateComplexityLevel ==
    /\ data = NotCalled
    /\ \E complexity \in Levels :
          /\ data' = [method |-> "validate_complexity_level", arg |-> complexity]
          /\ verdict' = Returned(validate_complexity_level(complexity))
    /\ UNCHANGED <<parse_vars, export_vars, generate_vars>>

NextValidate ==
    \/ ValidateInput
    \/ ValidateTestTypes
    \/ ValidateTestCaseData
    \/ ValidatePriorityLevel
    \/ ValidateComplexityLevel

SpecValidate == InitValidate /\ [][NextValidate]_vars

---------------------------------------------------------------------------
\* Claims about the validation service.

InputCall ==
    /\ data # NotCalled
    /\ data.method = "validate_input"
    /\ data.arg.t = "obj"

\* The title of the request, when it is a str.
TitleIsStr ==
    /\ InputCall
    /\ "user_story_title" \in DOMAIN data.arg.o
    /\ data.arg.o.user_story_title.t = "text"

TrimmedTitle == strip(data.arg.o.user_story_title.chunks)

TitleRequired == "User story title is required"
TitleTooShort == "User story title must be at least 10 characters long"
TitleTooLong == "User story title cannot exceed 200 characters"
TitleErrors ==
    {TitleRequired, "User story title must be a string", TitleTooShort, TitleTooLong}

\* C12, as stated: validate_input on a request whose title, trimmed of
\* surrounding whitespace, is shorter than 10 characters fails with the
\* minimum-length message.  The empty title is such a title and fails with
\* 'User story title is required'.
C12_Original ==
    (TitleIsStr /\ len(TrimmedTitle) < 10) => verdict.ret = Invalid(TitleTooShort)

\* C12, amended: a non-empty str title whose trimmed length is below 10 fails
\* with the minimum-length message and the empty str with the required
\* message; a trimmed length of 10 to 200 passes the title rule (no title
\* message is answered) and one above 200 fails with the maximum-length message.
C12_Amended ==
    TitleIsStr =>
        /\ verdict.exc = "none"
        /\ data.arg.o.user_story_title.chunks = <<>>
               => verdict.ret = Invalid(TitleRequired)
        /\ (data.arg.o.user_story_title.chunks # <<>> /\ len(TrimmedTitle) < 10)
               => verdict.ret = Invalid(TitleTooShort)
        /\ (len(TrimmedTitle) >= 10 /\ len(TrimmedTitle) <= 200)
               => verdict.ret.error \notin TitleErrors
        /\ len(TrimmedTitle) > 200 => verdict.ret = Invalid(TitleTooLong)

\* A title of nine characters between two blanks was answered the
\* minimum-length message.
C12_Witness ==
    /\ TitleIsStr
    /\ len(data.arg.o.user_story_title.chunks) = 11
    /\ len(TrimmedTitle) = 9
    /\ verdict.ret = Invalid(TitleTooShort)

TypesCall == data # NotCalled /\ data.method = "validate_test_types"

InCatalog(v) ==
    v \in { JStr("Functional"), JStr("Security"), JStr("UAT"), JStr("Performance"),
            JStr("Integration"), JStr("Usability"), JStr("Accessibility") }

PairwiseDistinct(l) == \A i, j \in 1..Len(l) : l[i] = l[j] => i = j

Outside(l) == SelectSeq(l, LAMBDA x : ~InCatalog(x))

\* C13: validate_test_types accepts a value iff it is a non-empty list of
\* pairwise distinct catalog members; a list of catalog members with a
\* repeated entry fails with the duplicate message, and a list with an entry
\* outside the catalog fails with the invalid-types message, duplicates or not.
C13_TestTypesRule ==
    TypesCall =>
        /\ verdict.exc = "none"
        /\ verdict.ret.valid <=>
               /\ data.arg.t = "list"
               /\ data.arg.l # <<>>
               /\ \A i \in 1..Len(data.arg.l) : InCatalog(data.arg.l[i])
               /\ PairwiseDistinct(data.arg.l)
        /\ (/\ data.arg.t = "list"
            /\ data.arg.l # <<>>
            /\ Outside(data.arg.l) = <<>>
            /\ ~PairwiseDistinct(data.arg.l))
               => verdict.ret = Invalid("Duplicate test types are not allowed")
        /\ (data.arg.t = "list" /\ Outside(data.arg.l) # <<>>)
               => /\ ~verdict.ret.valid
                  /\ verdict.ret.error \notin
                         { "Duplicate test types are not allowed",
                           "At least one test type must be selected",
                           "Test types must be provided as a list" }
                  /\ (\A i \in 1..Len(data.arg.l) : data.arg.l[i].t = "str")
                         => verdict.ret.error =
                                "Invalid test types: "
                                    \o JoinStrs(", ", Outside(data.arg.l))

CaseCall == data # NotCalled /\ data.method = "validate_test_case_data"

\* Python's `not v` is false of the value.
NonEmpty(v) ==
    /\ v # JNull
    /\ v # JStr("")
    /\ v # JNum(0)
    /\ v # JList(<<>>)
    /\ v # JObj(EmptyDict)

\* C14: validate_test_case_data accepts a record iff the eight required
\* fields are present and non-empty (as Python's truth test has it),
\* test_steps is a list, test_type is in TEST_TYPES and priority is in
\* PRIORITY_LEVELS; category and test_data are never looked at.
C14_RecordRule ==
    CaseCall =>
        LET test_case == data.arg.o IN
        /\ verdict.exc = "none"
        /\ verdict.ret.valid <=>
               /\ \A f \in { "test_id", "title", "description", "test_type",
                             "priority", "preconditions", "test_steps",
                             "expected_result" } :
                      f \in DOMAIN test_case /\ NonEmpty(test_case[f])
               /\ test_case.test_steps.t = "list"
               /\ InCatalog(test_case.test_type)
               /\ test_case.priority \in {JStr("Low"), JStr("Medium"), JStr("High")}
        /\ \A v, w \in RecordValues :
               validate_test_case_data(
                   With(With(test_case, "category", v), "test_data", w)) = verdict.ret

\* A record with a fabricated category and no test_data passed.
C14_Witness ==
    /\ CaseCall
    /\ verdict.ret.valid
    /\ Get(data.arg.o, "category") = JStr("Bogus")
    /\ "test_data" \notin DOMAIN data.arg.o

---------------------------------------------------------------------------
\* The export service (src/app/services/export_service.py).
\*
\* The strs of a record are sequences of single characters, so that joining,
\* trimming and lower-casing are computed character by character.  A CSV
\* file is its header and its rows of cells, as csv.DictWriter is handed them.

\* The str of an int, character by character.
RECURSIVE DigitChars(_)
DigitChars(n) ==
    IF n < 10 THEN <<Digit(n)>> ELSE DigitChars(n \div 10) \o <<Digit(n % 10)>>

\* repr(v) and str(v), character by character; the strs of the model hold
\* no quote and no backslash.
RECURSIVE ReprChars(_)
ReprCharsItems(l) ==
    LET RECURSIVE Items(_)
        Items(i) ==
            IF i > Len(l) THEN <<>>
            ELSE (IF i > 1 THEN <<",", " ">> ELSE <<>>)
                     \o ReprChars(l[i]) \o Items(i + 1)
    IN Items(1)
ReprChars(v) ==
    CASE v.t = "text" -> <<"'">> \o v.chunks \o <<"'">>
      [] v.t = "num" -> DigitChars(v.n)
      [] v.t = "null" -> <<"N", "o", "n", "e">>
      [] v.t = "bool" -> (IF v.b THEN <<"T", "r", "u", "e">>
                          ELSE <<"F", "a", "l", "s", "e">>)
      [] v.t = "list" -> <<"[">> \o ReprCharsItems(v.l) \o <<"]">>

str(v) == IF v.t = "text" THEN v.chunks ELSE ReprChars(v)

\* sep.join(str(item) for item in items)
RECURSIVE JoinChars(_, _)
JoinChars(sep, items) ==
    IF items = <<>> THEN <<>>
    ELSE IF Len(items) = 1 THEN str(items[1])
    ELSE str(items[1]) \o sep \o JoinChars(sep, Tail(items))

\* str.lower() of one character
LowerChar(c) ==
    CASE c = "A" -> "a" [] c = "B" -> "b" [] c = "C" -> "c" [] c = "D" -> "d"
      [] c = "E" -> "e" [] c = "F" -> "f" [] c = "G" -> "g" [] c = "H" -> "h"
      [] c = "I" -> "i" [] c = "J" -> "j" [] c = "K" -> "k" [] c = "L" -> "l"
      [] c = "M" -> "m" [] c = "N" -> "n" [] c = "O" -> "o" [] c = "P" -> "p"
      [] c = "Q" -> "q" [] c = "R" -> "r" [] c = "S" -> "s" [] c = "T" -> "t"
      [] c = "U" -> "u" [] c = "V" -> "v" [] c = "W" -> "w" [] c = "X" -> "x"
      [] c = "Y" -> "y" [] c = "Z" -> "z" [] OTHER -> c

\* str.lower()
lower(chars) == [i \in 1..Len(chars) |-> LowerChar(chars[i])]

\* dict.get(key, default)
GetOr(d, key, default) == IF key \in DOMAIN d THEN d[key] ELSE default

\* The cell csv.DictWriter writes for a value: nothing for None, str(v) otherwise.
CsvCell(v) == IF v = JNull THEN <<>> ELSE str(v)

\* datetime.now().strftime("%Y%m%d_%H%M%S")
strftime(t) == "20250101_0000" \o zfill(Str(t), 2)

\* send_file(io.BytesIO(csv_data), mimetype='text/csv', download_name=filename)
CsvFile(filename, fieldnames, rows) ==
    [mimetype |-> "text/csv", download_name |-> filename,
     header |-> fieldnames, rows |-> rows]

NoTestCases == Raise("ValueError", "No test cases provided for export")

\* A record that is no dict has no get.
NoGet(test_case) ==
    Raise("AttributeError",
          "'" \o TypeName(test_case) \o "' object has no attribute 'get'")

csv_fieldnames ==
    <<"test_id", "title", "description", "test_type", "priority", "preconditions",
      "test_steps", "expected_result", "test_data", "category", "generated_at">>

\* Mutant of the CSV cell: None is written as str(None).
CsvValueStrNone(test_case, field) ==
    LET value == GetOr(test_case, field, JText(<<>>)) IN
    IF value.t = "list"
    THEN IF field = "test_steps" THEN JoinChars(<<" ", "|", " ">>, value.l)
         ELSE JoinChars(<<",", " ">>, value.l)
    ELSE str(value)

\* row[field] of export_to_csv
CsvValue(test_case, field) ==
    LET value == GetOr(test_case, field, JText(<<>>)) IN
    IF value.t = "list"
    THEN IF field = "test_steps" THEN JoinChars(<<" ", "|", " ">>, value.l)
         ELSE JoinChars(<<",", " ">>, value.l)
    ELSE IF value # JNull THEN str(value) ELSE <<>>

\* Mutant of the export guard: an empty list is written as a header-only file.
export_to_csv_no_guard(test_cases, t) ==
    IF test_cases = JNull THEN NoTestCases
    ELSE IF \E i \in 1..Len(test_cases.l) : test_cases.l[i].t # "obj"
    THEN NoGet(test_cases.l[CHOOSE i \in 1..Len(test_cases.l) :
                                /\ test_cases.l[i].t # "obj"
                                /\ \A j \in 1..(i - 1) : test_cases.l[j].t = "obj"])
    ELSE Returned(CsvFile("test_cases_" \o strftime(t) \o ".csv", csv_fieldnames,
             [i \in 1..Len(test_cases.l) |->
                 [j \in 1..Len(csv_fieldnames) |->
                     CsvValue(test_cases.l[i].o, csv_fieldnames[j])]]))

export_to_csv(test_cases, t) ==
    IF Not(test_cases) THEN NoTestCases
    ELSE IF \E i \in 1..Len(test_cases.l) : test_cases.l[i].t # "obj"
    THEN NoGet(test_cases.l[CHOOSE i \in 1..Len(test_cases.l) :
                                /\ test_cases.l[i].t # "obj"
                                /\ \A j \in 1..(i - 1) : test_cases.l[j].t = "obj"])
    ELSE Returned(CsvFile("test_cases_" \o strftime(t) \o ".csv", csv_fieldnames,
             [i \in 1..Len(test_cases.l) |->
                 [j \in 1..Len(csv_fieldnames) |->
                     CsvValue(test_cases.l[i].o, csv_fieldnames[j])]]))

export_to_json(test_cases, t) ==
    IF Not(test_cases) THEN NoTestCases
    ELSE Returned(
             [mimetype |-> "application/json",
              download_name |-> "test_cases_" \o strftime(t) \o ".json",
              json |-> [metadata |-> [export_timestamp |-> isoformat(t),
                                      total_test_cases |-> Len(test_cases.l),
                                      export_format |-> "json",
                                      version |-> "1.0.0"],
                        test_cases |-> test_cases]])

jira_fieldnames ==
    <<"Summary", "Issue Type", "Priority", "Description", "Test Steps",
      "Expected Results", "Labels">>

\* test_steps_formatted += f"{i}. {step}\n", for the steps from the i-th on
Numbered(steps, i) ==
    LET RECURSIVE Steps(_)
        Steps(k) ==
            IF k > Len(steps) THEN <<>>
            ELSE DigitChars(k) \o <<".", " ">> \o str(steps[k]) \o <<"\n">>
                     \o Steps(k + 1)
    IN Steps(i)

test_steps_formatted(test_case) ==
    IF Get(test_case, "test_steps").t = "list"
    THEN Numbered(test_case.test_steps.l, 1)
    ELSE str(GetOr(test_case, "test_steps", JText(<<>>)))

\* value.lower(): only a str has it.
Lower(value) ==
    IF value.t = "text" THEN Returned(lower(value.chunks))
    ELSE Raise("AttributeError",
               "'" \o TypeName(value) \o "' object has no attribute 'lower'")

\* f"{test_case.get('test_type', '').lower()},{test_case.get('category', '').lower()}"
Labels(test_case) ==
    LET test_type == Lower(GetOr(test_case, "test_type", JText(<<>>)))
        category == Lower(GetOr(test_case, "category", JText(<<>>)))
    IN IF test_type.exc # "none" THEN test_type
       ELSE IF category.exc # "none" THEN category
       ELSE Returned(test_type.ret \o <<",">> \o category.ret)

\* jira_row of one record, cell by cell in the order of jira_fieldnames
jira_row(test_case) ==
    LET labels == Labels(test_case) IN
    IF labels.exc # "none" THEN labels
    ELSE Returned(
        << str(GetOr(test_case, "test_id", JText(<<>>))) \o <<" ", "-", " ">>
               \o str(GetOr(test_case, "title", JText(<<>>))),
           <<"T", "e", "s", "t">>,
           CsvCell(GetOr(test_case, "priority", JText(<<"M", "e", "d", "i", "u", "m">>))),
           <<"*", "P", "r", "e", "c", "o", "n", "d", "i", "t", "i", "o", "n", "s", ":", "*", " ">>
               \o str(GetOr(test_case, "preconditions", JText(<<>>)))
               \o <<"\n", "\n">> \o <<"*", "T", "e", "s", "t", " ", "D", "a", "t", "a", ":", "*", " ">>
               \o str(GetOr(test_case, "test_data", JText(<<>>))),
           strip(test_steps_formatted(test_case)),
           CsvCell(GetOr(test_case, "expected_result", JText(<<>>))),
           labels.ret >>)

\* The row of one element of test_cases; one that is no dict has no get.
JiraRowOf(test_case) ==
    IF test_case.t # "obj" THEN NoGet(test_case) ELSE jira_row(test_case.o)

export_to_jira_csv(test_cases, t) ==
    IF Not(test_cases) THEN NoTestCases
    ELSE LET rows == [i \in 1..Len(test_cases.l) |-> JiraRowOf(test_cases.l[i])]
             failed == {i \in 1..Len(rows) : rows[i].exc # "none"}
         IN IF failed # {}
            THEN rows[CHOOSE i \in failed : \A j \in failed : i <= j]
            ELSE Returned(CsvFile("jira_test_cases_" \o strftime(t) \o ".csv",
                                  jira_fieldnames,
                                  [i \in 1..Len(rows) |-> rows[i].ret]))

---------------------------------------------------------------------------
\* The records the export service is called with.

ExportIds == {Absent, JText(<<"T", "C", "0", "0", "1">>), JNum(7)}
ExportTitles == {Absent, JText(<<"L", "o", "g", " ", "i", "n">>)}
ExportTypes == {Absent, JNull, JText(<<"S", "e", "c", "u", "r", "i", "t", "y">>), JText(<<"U", "A", "T">>)}
ExportCategories == {Absent, JNull, JNum(3), JText(<<"N", "e", "g", "a", "t", "i", "v", "e">>)}
ExportSteps ==
    { Absent, JNull, JText(<<"a">>), JList(<<>>),
      JList(<<JText(<<"a">>), JText(<<"b">>)>>),
      JList(<<JText(<<"O", "p", "e", "n", " ", "p", "a", "g", "e">>)>>),
      JList(<<JText(<<"a">>), JText(<<"b", " ">>)>>),
      JList(<<JText(<<"a">>), JText(<<>>)>>),
      JList(<<JText(<<" ", "a">>), JNull, JNum(12)>>) }
ExportTestData ==
    { Absent, JNull, JText(<<"x">>), JList(<<JText(<<"x">>), JText(<<"y">>)>>),
      JList(<<JNull>>) }
ExportOthers ==
    { <<Absent, Absent, Absent>>,
      <<JText(<<"V", "a", "l", "i", "d", " ", "l", "o", "g", "i", "n">>), JText(<<"U", "s", "e", "r", " ", "e", "x", "i", "s", "t", "s">>), JText(<<"D", "a", "s", "h", "b", "o", "a", "r", "d">>)>>,
      <<JNull, JList(<<JText(<<"p">>), JText(<<"q">>)>>), JNum(0)>> }
ExportPriorities == {Absent, JNull, JText(<<"H", "i", "g", "h">>)}

ExportRecords ==
    { Dict({ <<"test_id", id>>, <<"title", title>>, <<"test_type", type>>,
             <<"category", category>>, <<"test_steps", steps>>,
             <<"test_data", test_data>>, <<"priority", priority>>,
             <<"description", others[1]>>, <<"preconditions", others[2]>>,
             <<"expected_result", others[3]>>,
             <<"generated_at", IF id = Absent THEN Absent
                               ELSE JText(<<"2", "0", "2", "5", "-", "0", "1", "-", "0", "1", "T", "0", "0", ":", "0", "0", ":", "0", "0">>)>> }) :
        id \in ExportIds, title \in ExportTitles, type \in ExportTypes,
        category \in ExportCategories, steps \in ExportSteps,
        test_data \in ExportTestData, priority \in ExportPriorities,
        others \in ExportOthers }

\* A record of strs only, as the normalizer's table of defaults leaves it.
PlainRecord ==
    [ test_id |-> JText(<<"T", "C", "0", "0", "2">>), title |-> JText(<<"L", "o", "g", " ", "o", "u", "t">>),
      description |-> JText(<<"d">>), test_type |-> JText(<<"F", "u", "n", "c", "t", "i", "o", "n", "a", "l">>),
      priority |-> JText(<<"M", "e", "d", "i", "u", "m">>), preconditions |-> JText(<<"p">>),
      test_steps |-> JList(<<JText(<<"s">>)>>), expected_result |-> JText(<<"e">>),
      test_data |-> JText(<<"t">>), category |-> JText(<<"P", "o", "s", "i", "t", "i", "v", "e">>),
      generated_at |-> JText(<<"2", "0", "2", "5", "-", "0", "1", "-", "0", "1", "T", "0", "0", ":", "0", "0", ":", "0", "1">>) ]

\* None, the empty list, the lists of one record, and lists of two elements.
ExportLists ==
    {JNull, JList(<<>>)}
        \cup {JList(<<JObj(r)>>) : r \in ExportRecords}
        \cup {JList(<<JObj(PlainRecord), second>>) :
                 second \in {JObj(PlainRecord), JNum(1),
                             JObj(Dict({<<"category", JNull>>})), JObj(EmptyDict)}}

---------------------------------------------------------------------------
\* The export service as a state machine: it keeps no state of its own, so
\* one call is followed: the step records its argument and its outcome.

InitExport == ParserIdle /\ ServicesIdle

\* Mutant: export_to_csv stores the joined steps in the record it was handed.
ArgumentAfterRowsInPlace(method, test_cases) ==
    IF method = "export_to_csv" /\ test_cases.t = "list"
    THEN JList([i \in 1..Len(test_cases.l) |->
                   IF test_cases.l[i].t = "obj"
                   THEN JObj(SetItem(test_cases.l[i].o, "test_steps",
                                     JText(CsvValue(test_cases.l[i].o, "test_steps"))))
                   ELSE test_cases.l[i]])
    ELSE test_cases

\* The caller's list as the call leaves it.  The three exports read each
\* test_case with get and subscripts, build every row in a dict of their
\* own and (export_to_json) put the list itself in the envelope: no
\* statement assigns to the list or to a record of it.
ArgumentAfter(method, test_cases) == test_cases

ExportToCsv ==
    /\ to_export = NotCalled
    /\ \E test_cases \in ExportLists :
          /\ to_export' = [method |-> "export_to_csv", arg |-> test_cases,
                           after |-> ArgumentAfter("export_to_csv", test_cases)]
          /\ exported' = export_to_csv(test_cases, now)
    /\ UNCHANGED <<parse_vars, validation_vars, generate_vars>>

ExportToJson ==
    /\ to_export = NotCalled
    /\ \E test_cases \in ExportLists :
          /\ to_export' = [method |-> "export_to_json", arg |-> test_cases,
                           after |-> ArgumentAfter("export_to_json", test_cases)]
          /\ exported' = export_to_json(test_cases, now)
    /\ UNCHANGED <<parse_vars, validation_vars, generate_vars>>

ExportToJiraCsv ==
    /\ to_export = NotCalled
    /\ \E test_cases \in ExportLists :
          /\ to_export' = [method |-> "export_to_jira_csv", arg |-> test_cases,
                           after |-> ArgumentAfter("export_to_jira_csv", test_cases)]
          /\ exported' = export_to_jira_csv(test_cases, now)
    /\ UNCHANGED <<parse_vars, validation_vars, generate_vars>>

NextExport == ExportToCsv \/ ExportToJson \/ ExportToJiraCsv

SpecExport == InitExport /\ [][NextExport]_vars

---------------------------------------------------------------------------
\* Claims about the export service.

\* A call of `method` on a non-empty list of dicts.
ExportCall(method) ==
    /\ to_export # NotCalled
    /\ to_export.method = method
    /\ to_export.arg.t = "list"
    /\ to_export.arg.l # <<>>
    /\ \A i \in 1..Len(to_export.arg.l) : to_export.arg.l[i].t = "obj"

AllStrs(l) == \A i \in 1..Len(l) : l[i].t = "text"

\* The strs of l with sep between them.
RECURSIVE Joined(_, _)
Joined(sep, l) ==
    IF l = <<>> THEN <<>>
    ELSE IF Len(l) = 1 THEN l[1].chunks
    ELSE l[1].chunks \o sep \o Joined(sep, Tail(l))

ColumnOrder ==
    <<"test_id", "title", "description", "test_type", "priority", "preconditions",
      "test_steps", "expected_result", "test_data", "category", "generated_at">>

C16_EmptyIsAnError ==
    (to_export # NotCalled /\ to_export.arg = JList(<<>>)) =>
        /\ exported.exc = "ValueError"
        /\ exported.msg = "No test cases provided for export"
        /\ "ret" \notin DOMAIN exported

\* export_to_jira_csv([]) raised.
C16_Witness ==
    /\ to_export # NotCalled
    /\ to_export.method = "export_to_jira_csv"
    /\ to_export.arg = JList(<<>>)
    /\ exported.exc = "ValueError"

\* '{n}. {step}' for the steps from the n-th on, with newlines between them.
RECURSIVE NumberedLines(_, _)
NumberedLines(steps, n) ==
    IF n > Len(steps) THEN <<>>
    ELSE DigitChars(n) \o <<".", " ">> \o steps[n].chunks
             \o (IF n < Len(steps) THEN <<"\n">> ELSE <<>>)
             \o NumberedLines(steps, n + 1)

TextOr(record, field) ==
    IF field \in DOMAIN record THEN record[field] ELSE JText(<<>>)

\* C17: export_to_jira_csv builds for each record the Summary from test_id
\* and title, the Test Steps as the steps numbered '{n}. {step}' from 1 with
\* newlines between them, and the Labels as the lower-cased test_type, a
\* comma and the lower-cased category.
C17_JiraRow ==
    ExportCall("export_to_jira_csv") =>
        /\ exported.exc = "none"
        /\ \A i \in 1..Len(to_export.arg.l) :
               LET record == to_export.arg.l[i].o
                   row == exported.ret.rows[i]
               IN /\ (TextOr(record, "test_id").t = "text"
                         /\ TextOr(record, "title").t = "text")
                        => row[1] = TextOr(record, "test_id").chunks \o <<" ", "-", " ">>
                                        \o TextOr(record, "title").chunks
                  /\ (Get(record, "test_steps").t = "list"
                         /\ AllStrs(record.test_steps.l))
                        => row[5] = NumberedLines(record.test_steps.l, 1)
                  /\ (TextOr(record, "test_type").t = "text"
                         /\ TextOr(record, "category").t = "text")
                        => row[7] = lower(TextOr(record, "test_type").chunks)
                                        \o <<",">>
                                        \o lower(TextOr(record, "category").chunks)

---------------------------------------------------------------------------
\* Generation: the route POST /api/generate of src/app.py and
\* AnthropicService.generate_test_cases.  Both build a prompt, call
\* requests.post once and turn what comes back into their answer.

\* jsonify(body), status
Answer(status, body) == [status |-> status, body |-> body]
ErrorAnswer(status, msg) == Answer(status, [error |-> msg])

\* The call the try body stops at: requests.post(url, json=payload, timeout=60)
Post(payload) == [exc |-> "none", post |-> payload]

\* value.strip(): only a str has it.
Strip(value) ==
    IF value.t = "text" THEN Returned(strip(value.chunks))
    ELSE Raise("AttributeError",
               "'" \o TypeName(value) \o "' object has no attribute 'strip'")

\* 'Yes' if flag else 'No'
YesNo(flag) == IF Not(flag) THEN "No" ELSE "Yes"

\* detail_levels of build_claude_prompt
detail_levels(complexity) ==
    CASE complexity = JStr("Simple") ->
             "Generate concise test cases with basic steps."
      [] complexity = JStr("Complex") ->
             "Generate very detailed test cases with extensive validation."
      [] OTHER -> "Generate detailed test cases with comprehensive steps."

\* The parts of the prompt that come from the request; the title and the
\* criteria are kept as the values the f-string formats.
Prompt(title, criteria, joined, edge_cases, negative_cases, priority, complexity, detail) ==
    [title |-> title, criteria |-> criteria, test_types |-> joined,
     edge_cases |-> YesNo(edge_cases), negative_cases |-> YesNo(negative_cases),
     priority |-> StrOf(priority), complexity |-> StrOf(complexity),
     detail |-> detail]

\* ', '.join(test_types) of a list, or of a value that cannot be iterated
JoinTypes(test_types) ==
    CASE test_types.t = "list" -> Join(", ", test_types.l)
      [] test_types.t \in {"null", "num", "bool"} ->
             Raise("TypeError", "can only join an iterable")

build_claude_prompt(title, criteria, test_types, edge_cases, negative_cases, priority, complexity) ==
    LET joined == JoinTypes(test_types)
    IN IF joined.exc # "none" THEN joined
       ELSE Returned(Prompt(title, criteria, joined.ret, edge_cases, negative_cases,
                            priority, complexity, detail_levels(complexity)))

\* The try body of the route up to the outbound call: an answer, an
\* exception, or the payload that is posted.
GenerateBody(key, body) ==
    IF ~key
    THEN Returned(ErrorAnswer(500, "ANTHROPIC_API_KEY environment variable not set"))
    ELSE LET d == IF Not(body) THEN JObj(EmptyDict) ELSE body IN
    IF d.t # "obj"
    THEN Raise("AttributeError", "'" \o TypeName(d) \o "' object has no attribute 'get'")
    ELSE LET user_story_title == Strip(GetOr(d.o, "user_story_title", JText(<<>>)))
             acceptance_criteria == Strip(GetOr(d.o, "acceptance_criteria", JText(<<>>)))
             test_types == GetOr(d.o, "test_types", JList(<<>>))
             include_edge_cases == GetOr(d.o, "include_edge_cases", JBool(FALSE))
             include_negative_cases == GetOr(d.o, "include_negative_cases", JBool(FALSE))
             priority_level == GetOr(d.o, "priority_level", JStr("Medium"))
             complexity == GetOr(d.o, "complexity", JStr("Medium"))
         IN
    IF user_story_title.exc # "none" THEN user_story_title
    ELSE IF acceptance_criteria.exc # "none" THEN acceptance_criteria
    ELSE IF user_story_title.ret = <<>>
    THEN Returned(ErrorAnswer(400, "User story title is required"))
    ELSE IF acceptance_criteria.ret = <<>>
    THEN Returned(ErrorAnswer(400, "Acceptance criteria is required"))
    ELSE IF Not(test_types)
    THEN Returned(ErrorAnswer(400, "At least one test type must be selected"))
    ELSE LET prompt == build_claude_prompt(user_story_title.ret, acceptance_criteria.ret,
                           test_types, include_edge_cases, include_negative_cases,
                           priority_level, complexity)
         IN IF prompt.exc # "none" THEN prompt
            ELSE Post([url |-> "https://api.anthropic.com/v1/messages",
                       model |-> "claude-3-5-sonnet-20241022",
                       max_tokens |-> 4000, timeout |-> 60,
                       prompt |-> prompt.ret])

\* What requests.post comes back with: an exception, or a response whose
\* body is no JSON, or is a JSON object.
TimeoutErrors == {"ReadTimeout", "ConnectTimeout"}
RequestErrors == TimeoutErrors \cup {"ConnectionError", "RequestsJSONDecodeError"}

\* response.json(): the exception class depends on the installed requests.
ResponseJson(reply) ==
    IF reply.json.t = "invalid"
    THEN Raise(reply.json.raises, "Expecting value: line 1 column 1 (char 0)")
    ELSE Returned(reply.json.o)

\* response_data['content'][0]['text']
ContentText(response_data) ==
    IF "content" \notin DOMAIN response_data THEN Raise("KeyError", "'content'")
    ELSE IF response_data.content = <<>>
    THEN Raise("IndexError", "list index out of range")
    ELSE IF "text" \notin DOMAIN response_data.content[1] THEN Raise("KeyError", "'text'")
    ELSE Returned(response_data.content[1].text)

\* The try body of the route after the outbound call.
GenerateAfter(reply, t0) ==
    IF reply.kind = "raise" THEN Raise(reply.exc, reply.msg)
    ELSE IF reply.status_code # 200
    THEN Returned(ErrorAnswer(500, "AI service error: " \o Str(reply.status_code)))
    ELSE LET response_data == ResponseJson(reply) IN
    IF response_data.exc # "none" THEN response_data
    ELSE LET claude_response == ContentText(response_data.ret) IN
    IF claude_response.exc # "none" THEN claude_response
    ELSE LET parsed == parse_claude_response(claude_response.ret, t0,
                                             Len(claude_response.ret) + 1).ret
         IN IF "success" \in DOMAIN parsed /\ parsed.success
            THEN Returned(Answer(200, parsed))
            ELSE Returned(ErrorAnswer(400, IF "error" \in DOMAIN parsed THEN parsed.error
                                           ELSE "Failed to parse response"))

\* Mutant of the except clauses: a timeout is answered like any request error.
GenerateExceptNoTimeout(body) ==
    IF body.exc = "none" THEN body
    ELSE IF body.exc \in RequestErrors
    THEN Returned(ErrorAnswer(500, "Failed to connect to AI service"))
    ELSE Returned(ErrorAnswer(500, "Server error: " \o body.msg))

\* except Timeout / except RequestException / except Exception of the route
GenerateExcept(body) ==
    IF body.exc = "none" THEN body
    ELSE IF body.exc \in TimeoutErrors
    THEN Returned(ErrorAnswer(408, "Request timeout - please try again"))
    ELSE IF body.exc \in RequestErrors
    THEN Returned(ErrorAnswer(500, "Failed to connect to AI service"))
    ELSE Returned(ErrorAnswer(500, "Server error: " \o body.msg))

\* detail_instructions of AnthropicService._build_prompt
detail_instructions(complexity) ==
    CASE complexity = JStr("Simple") ->
             "Generate concise test cases with basic steps."
      [] complexity = JStr("Complex") ->
             "Generate very detailed test cases with extensive steps, multiple validation points, and thorough error handling."
      [] OTHER -> "Generate detailed test cases with comprehensive steps and validation."

_build_prompt(title, criteria, test_types, edge_cases, negative_cases, priority, complexity) ==
    LET joined == JoinTypes(test_types)
    IN IF joined.exc # "none" THEN joined
       ELSE Returned(Prompt(title, criteria, joined.ret, edge_cases,
                            negative_cases, priority, complexity,
                            detail_instructions(complexity)))

\* The try body of AnthropicService.generate_test_cases up to the outbound
\* call; user_story_title[:50] needs a str or a list.
ServiceBody(args) ==
    IF args.user_story_title.t \notin {"text", "list"}
    THEN Raise("TypeError",
               "'" \o TypeName(args.user_story_title) \o "' object is not subscriptable")
    ELSE LET prompt == _build_prompt(args.user_story_title, args.acceptance_criteria,
                           args.test_types, args.include_edge_cases,
                           args.include_negative_cases, args.priority_level,
                           args.complexity)
         IN IF prompt.exc # "none" THEN prompt
            ELSE Post([url |-> "https://api.anthropic.com/v1/messages",
                       model |-> "claude-3-5-sonnet-20241022",
                       max_tokens |-> 4000, timeout |-> 60,
                       prompt |-> prompt.ret])

\* The try body of AnthropicService.generate_test_cases after the outbound call.
ServiceAfter(reply, t0) ==
    IF reply.kind = "raise" THEN Raise(reply.exc, reply.msg)
    ELSE IF reply.status_code # 200
    THEN Returned([error |-> "API request failed: " \o Str(reply.status_code)
                                 \o " - " \o reply.text])
    ELSE LET response_data == ResponseJson(reply) IN
    IF response_data.exc # "none" THEN response_data
    ELSE IF "content" \notin DOMAIN response_data.ret
            \/ Len(response_data.ret.content) = 0
    THEN Returned([error |-> "No content in API response"])
    ELSE LET content_text == ContentText(response_data.ret) IN
    IF content_text.exc # "none" THEN content_text
    ELSE _parse_response(content_text.ret, t0, Len(content_text.ret) + 1)

\* except RequestException / except Exception of the service
ServiceExcept(body) ==
    IF body.exc = "none" THEN body
    ELSE IF body.exc \in RequestErrors
    THEN Returned([error |-> "HTTP request error: " \o body.msg])
    ELSE Returned([error |-> "Error generating test cases: " \o body.msg])

---------------------------------------------------------------------------
\* The inbound calls and what the model endpoint comes back with.

MaxPosts == 3     \* outbound calls counted

GenerateBodies ==
    {JNull, JObj(EmptyDict), JList(<<JNum(1)>>)}
    \cup
    { JObj(Dict({ <<"user_story_title", title>>, <<"acceptance_criteria", criteria>>,
                  <<"test_types", types>>, <<"priority_level", priority>>,
                  <<"complexity", complexity>>,
                  <<"include_edge_cases", flags[1]>>,
                  <<"include_negative_cases", flags[2]>> })) :
        title \in { Absent, JNull, JText(<<>>), JText(Blank(3)), JText(<<"short">>),
                    JText(<<Run("x", min_title_length)>>),
                    JText(<<" ", "As", " ", "a", " ", "user", " ", "I", " ", "log", " ", "in", " ">>) },
        criteria \in { Absent, JNull, JText(<<>>), JText(<<"ok">>),
                       JText(<<Run("y", min_criteria_length)>>) },
        types \in { Absent, JNull, JList(<<>>), JList(<<JStr("Functional")>>),
                    JList(<<JStr("Bogus")>>),
                    JList(<<JStr("Functional"), JStr("Functional")>>),
                    JList(<<JNum(5)>>) },
        priority \in {Absent, JStr("Urgent")},
        complexity \in {Absent, JStr("Simple"), JStr("Hard")},
        flags \in {<<Absent, Absent>>, <<JBool(TRUE), JStr("yes")>>} }

\* The arguments of generate_test_cases, the optional ones defaulted.
ServiceArgs ==
    { [ user_story_title |-> GetOr(b.o, "user_story_title", JNull),
        acceptance_criteria |-> GetOr(b.o, "acceptance_criteria", JNull),
        test_types |-> GetOr(b.o, "test_types", JNull),
        include_edge_cases |-> GetOr(b.o, "include_edge_cases", JBool(FALSE)),
        include_negative_cases |-> GetOr(b.o, "include_negative_cases", JBool(FALSE)),
        priority_level |-> GetOr(b.o, "priority_level", JStr("Medium")),
        complexity |-> GetOr(b.o, "complexity", JStr("Medium")) ] :
        b \in {c \in GenerateBodies : c.t = "obj"} }

ReplyTexts ==
    ExampleTexts
    \cup { <<>>, <<PROSE>>, ArrayText(<<FullDict>>), ArrayText(<<EmptyDict, EmptyDict>>),
           <<PROSE>> \o ArrayText(<<FullDict>>) \o <<PROSE>> }

Replies ==
    { [kind |-> "raise", exc |-> "ReadTimeout", msg |-> "Read timed out. (read timeout=60)"],
      [kind |-> "raise", exc |-> "ConnectTimeout", msg |-> "Connection to api.anthropic.com timed out"],
      [kind |-> "raise", exc |-> "ConnectionError", msg |-> "Connection refused"] }
    \cup { [kind |-> "response", status_code |-> code, text |-> "error"] :
               code \in {400, 401, 429, 500, 529} }
    \cup { [kind |-> "response", status_code |-> 200, text |-> "",
            json |-> [t |-> "invalid", raises |-> exc]] :
               exc \in {"RequestsJSONDecodeError", "JSONDecodeError"} }
    \cup { [kind |-> "response", status_code |-> 200, text |-> "",
            json |-> [t |-> "obj", o |-> envelope]] :
               envelope \in { [id |-> "msg_1"], [content |-> <<>>],
                              [content |-> <<[type |-> "tool_use"]>>] }
                             \cup {[content |-> <<[type |-> "text", text |-> text]>>] :
                                      text \in ReplyTexts} }

---------------------------------------------------------------------------
\* One generate call: the handler runs up to requests.post or answers at
\* once, the call is sent, and what comes back is turned into the answer.

InitGenerate ==
    /\ ParserIdle
    /\ CallersIdle
    /\ api_key \in BOOLEAN
    /\ GenerateIdle

\* Mutant: the outbound call is sent again after a timeout.
RetryOnTimeout(reply) ==
    IF reply.kind = "raise" /\ reply.exc \in TimeoutErrors THEN "posting" ELSE "done"

\* Where the handler is once the outbound call has come back: it answers.
AfterReply(reply) == "done"

\* The handler's steps before the outbound call, whose outcome is `out`.
Entered(who, arg, out) ==
    /\ request' = arg
    /\ caller' = who
    /\ IF "post" \in DOMAIN out
       THEN /\ hpc' = "posting"
            /\ outbound' = out.post
            /\ UNCHANGED response
       ELSE /\ hpc' = "done"
            /\ response' = out.ret
            /\ UNCHANGED outbound
    /\ UNCHANGED <<api_key, posts, upstream, calls, frames>>
    /\ UNCHANGED <<parse_vars, validation_vars, export_vars>>

Generate ==
    /\ hpc = "idle"
    /\ \E body \in GenerateBodies :
          Entered("route", body, GenerateExcept(GenerateBody(api_key, body)))

\* AnthropicService() raises without the key, so the service exists with it.
ServiceGenerate ==
    /\ hpc = "idle"
    /\ api_key
    /\ \E args \in ServiceArgs :
          Entered("service", args, ServiceExcept(ServiceBody(args)))

\* requests.post(...)
SendPost ==
    /\ hpc = "posting"
    /\ posts < MaxPosts
    /\ posts' = posts + 1
    /\ hpc' = "posted"
    /\ UNCHANGED <<api_key, request, caller, outbound, upstream, response, calls, frames>>
    /\ UNCHANGED <<parse_vars, validation_vars, export_vars>>

\* The outbound call comes back with `reply`.
Reply ==
    /\ hpc = "posted"
    /\ \E reply \in Replies :
          /\ upstream' = reply
          /\ hpc' = AfterReply(reply)
          /\ response' = IF caller = "route"
                         THEN GenerateExcept(GenerateAfter(reply, now)).ret
                         ELSE ServiceExcept(ServiceAfter(reply, now)).ret
    /\ UNCHANGED <<api_key, request, caller, posts, outbound, calls, frames>>
    /\ UNCHANGED <<parse_vars, validation_vars, export_vars>>

NextGenerate == Generate \/ ServiceGenerate \/ SendPost \/ Reply

SpecGenerate == InitGenerate /\ [][NextGenerate]_vars

---------------------------------------------------------------------------
\* Properties of the generate calls, stated on the inbound request, the
\* count of outbound calls, what came back and the answer.

RouteDone == caller = "route" /\ hpc = "done"
ServiceDone == caller = "service" /\ hpc = "done"

\* A field of the JSON body of the request; a body that is null or empty
\* has no field.
Field(f) ==
    IF request.t = "obj" /\ f \in DOMAIN request.o THEN request.o[f] ELSE Absent

Missing(f) == Field(f) = Absent

\* Absent, or a str that holds nothing but whitespace.
BlankField(f) ==
    \/ Missing(f)
    \/ /\ Field(f).t = "text"
       /\ \A i \in 1..Len(Field(f).chunks) : Field(f).chunks[i] \in Whitespace

NoTestTypes == Missing("test_types") \/ Not(Field("test_types"))

\* The body is a JSON object (or null, or empty) whose title and criteria
\* are each absent or a str.
PlainBody ==
    /\ request.t = "obj" \/ Not(request)
    /\ \A f \in {"user_story_title", "acceptance_criteria"} :
          Missing(f) \/ Field(f).t = "text"

Answered(status) == response # NotCalled /\ response.status = status
AnsweredError(status, msg) ==
    Answered(status) /\ response.body = [error |-> msg]

TimedOut == upstream # NotCalled /\ upstream.kind = "raise" /\ upstream.exc \in {"ReadTimeout", "ConnectTimeout"}
TransportError == upstream # NotCalled /\ upstream.kind = "raise" /\ upstream.exc = "ConnectionError"
Non200 == upstream # NotCalled /\ upstream.kind = "response" /\ upstream.status_code # 200
Got200 == upstream # NotCalled /\ upstream.kind = "response" /\ upstream.status_code = 200

\* The 200 response carries the text of a first content block.
HasContentText ==
    /\ Got200
    /\ upstream.json.t = "obj"
    /\ "content" \in DOMAIN upstream.json.o
    /\ upstream.json.o.content # <<>>
    /\ "text" \in DOMAIN upstream.json.o.content[1]

ContentOf == upstream.json.o.content[1].text

C19_AtMostOneOutboundCall ==
    /\ posts <= 1
    /\ upstream # NotCalled => posts = 1 /\ hpc = "done" /\ response # NotCalled

\* The outbound call of the route timed out and the request was answered
\* 408 after that one call.
C19_Witness ==
    /\ RouteDone
    /\ posts = 1
    /\ TimedOut
    /\ Answered(408)

\* C20: the route sends the outbound call only for a request that passes
\* ValidationService.validate_input.
C20_ValidatedBeforePost ==
    caller = "route" /\ posts > 0 => validate_input(request).ret.valid

---------------------------------------------------------------------------
\* Further properties of the two parsers.

\* C22: when the text holds both brackets, what is parsed is the substring
\* from the first '[' to the last ']'; if that substring is not valid JSON
\* the result is the invalid-JSON error with the JSON parser's message and
\* carries no records; if it is, the result is never the invalid-JSON error,
\* and is a success with one record per element exactly when every element
\* is an object.
C22_FirstToLast ==
    (pc = "svc" /\ HasToken(response_text, LBR) /\ HasToken(response_text, RBR)) =>
        /\ raised = "none"
        /\ IF ~ValidJsonArray(Between(response_text))
           THEN /\ MalformedJson
                /\ DOMAIN result = {"error"}
           ELSE /\ ~MalformedJson
                /\ Succeeded <=> WellFormed(response_text)
                /\ Succeeded =>
                      Len(result.test_cases) = Len(Elements(response_text))

\* "[1] and [2]": the substring from the first '[' to the last ']' is the
\* whole text, which is not one JSON value.
C22_Witness ==
    /\ pc = "svc"
    /\ response_text = <<LBR, JNum(1), RBR, PROSE, LBR, JNum(2), RBR>>
    /\ result = [error |-> "Invalid JSON in response: Extra data"]

\* A field of an element that is present and not empty; test_steps counts
\* when it is a list.
Supplied(e, k) ==
    /\ k \in DOMAIN e
    /\ k # "generated_at"
    /\ Truthy(e[k])
    /\ k = "test_steps" => e[k].t = "list"

\* C24: every field that an element supplies (test_id and a list-valued
\* test_steps included) has the element's value in the record that
\* _parse_response returns, and a record whose element supplies every
\* field differs from it in generated_at only.
C24_NeverOverwrites ==
    (pc = "svc" /\ WellFormed(response_text)) =>
        /\ Succeeded
        /\ \A i \in 1..Len(Elements(response_text)) :
              LET e == Elements(response_text)[i]
                  r == result.test_cases[i]
              IN  /\ \A k \in DOMAIN e : Supplied(e, k) => r[k] = e[k]
                  /\ (\A k \in FieldNames \ {"generated_at"} : Supplied(e, k))
                        => /\ DOMAIN r = DOMAIN e \cup {"generated_at"}
                           /\ \A k \in DOMAIN e \ {"generated_at"} : r[k] = e[k]

\* The full record comes back with its own values and a new generated_at.
C24_Witness ==
    /\ pc = "svc"
    /\ Succeeded
    /\ response_text = ArrayText(<<FullDict>>)
    /\ result.test_cases[1] # FullDict
    /\ result.test_cases[1] =
          SetItem(FullDict, "generated_at", result.test_cases[1].generated_at)

\* The value lies outside the catalog of test types, or of priorities.
OffCatalogType(v) == v \notin Range(TEST_TYPES)
OffCatalogPriority(v) == v \notin Range(PRIORITY_LEVELS)

\* C25: _parse_response returns the test_type and the priority of an element
\* as they are, inside the catalog or not, without an error, and
\* validate_test_case_data rejects every returned record whose test_type or
\* priority is outside the catalog.
C25_LenientNormalizer ==
    (pc = "svc" /\ WellFormed(response_text)) =>
        /\ Succeeded
        /\ \A i \in 1..Len(Elements(response_text)) :
              LET e == Elements(response_text)[i]
                  r == result.test_cases[i]
              IN  /\ \A k \in {"test_type", "priority"} \cap DOMAIN e : r[k] = e[k]
                  /\ (OffCatalogType(r.test_type) \/ OffCatalogPriority(r.priority))
                        => ~validate_test_case_data(r).valid

\* The record with test_type 'Bogus' is returned as it came and is rejected
\* by the per-record validator for that test_type.
C25_Witness ==
    /\ pc = "svc"
    /\ Succeeded
    /\ response_text = ArrayText(<<SetItem(FullDict, "test_type", JStr("Bogus"))>>)
    /\ result.test_cases[1].test_type = JStr("Bogus")
    /\ validate_test_case_data(result.test_cases[1])
          = Invalid("Invalid test_type: Bogus")

SuccessKeys == {"success", "test_cases", "total_count", "generated_at", "model_used"}

\* C29: every result of _parse_response is either a success, with
\* test_cases, total_count equal to their number, generated_at and model_used
\* and no error, or an error message and nothing else; never both, never
\* neither.
C29_TwoShapes ==
    pc = "svc" =>
        /\ raised = "none"
        /\ \/ /\ DOMAIN result = SuccessKeys
              /\ result.success = TRUE
              /\ result.total_count = Len(result.test_cases)
           \/ DOMAIN result = {"error"}

\* The success shape: two records, counted as two, and no error key.
C29_Witness ==
    /\ pc = "svc"
    /\ response_text = ArrayText(<<EmptyDict, EmptyDict>>)
    /\ DOMAIN result = SuccessKeys
    /\ result.total_count = 2
    /\ Len(result.test_cases) = 2

\* The kind of a parser's outcome.
OutcomeKind(out) ==
    IF out.exc # "none" THEN "raised"
    ELSE IF "success" \in DOMAIN out.ret THEN "success"
    ELSE IF out.ret.error = "No JSON array found in response" THEN "no-json-array"
    ELSE IF \E m \in JsonMessages :
               out.ret.error \in {"Invalid JSON in response: " \o m, "Invalid JSON: " \o m}
    THEN "invalid-json"
    ELSE "other"

\* C30 as stated: on the text that was parsed, parse_claude_response and
\* _parse_response give the same kind of outcome and, on success, as many
\* records with the same test_id and the same test_steps each.
C30_ParsersAgree ==
    pc # "ready" =>
        LET svc == _parse_response(response_text, call_now, call_tick)
            app == parse_claude_response(response_text, call_now, call_tick)
        IN  /\ OutcomeKind(svc) = OutcomeKind(app)
            /\ OutcomeKind(svc) = "success" =>
                  /\ Len(svc.ret.test_cases) = Len(app.ret.test_cases)
                  /\ \A i \in 1..Len(svc.ret.test_cases) :
                        /\ svc.ret.test_cases[i].test_id = app.ret.test_cases[i].test_id
                        /\ svc.ret.test_cases[i].test_steps
                              = app.ret.test_cases[i].test_steps

---------------------------------------------------------------------------
\* Further properties of the validation service.

\* The names of the entries, with ", " between them.
RECURSIVE Names(_)
Names(l) ==
    IF l = <<>> THEN ""
    ELSE IF Len(l) = 1 THEN StrOf(l[1])
    ELSE StrOf(l[1]) \o ", " \o Names(Tail(l))

\* The test_types rule and its messages.
TestTypesRule(v) ==
    IF v \in {JNull, JList(<<>>)}
    THEN Invalid("At least one test type must be selected")
    ELSE IF v.t # "list" THEN Invalid("Test types must be provided as a list")
    ELSE IF Outside(v.l) # <<>>
    THEN Invalid("Invalid test types: " \o Names(Outside(v.l)))
    ELSE IF ~PairwiseDistinct(v.l)
    THEN Invalid("Duplicate test types are not allowed")
    ELSE Valid

\* The six rules on a request, in the order title, criteria, test_types,
\* priority, complexity, boolean flags.
Rules(d) ==
    << validate_user_story_title(Get(d, "user_story_title")),
       validate_acceptance_criteria(Get(d, "acceptance_criteria")),
       TestTypesRule(Get(d, "test_types")),
       validate_priority_level(Get(d, "priority_level")),
       validate_complexity_level(Get(d, "complexity")),
       validate_boolean_flags(d) >>

Violated(d) == {i \in 1..6 : ~Rules(d)[i].valid}

\* C23 as stated: validate_input on a request answers the message of the
\* first rule, in the fixed order, that the request violates, whatever later
\* rules it violates too, and answers valid only when it violates none.
C23_FailFast ==
    (InputCall /\ DOMAIN data.arg.o # {}) =>
        /\ verdict.exc = "none"
        /\ IF Violated(data.arg.o) = {}
           THEN verdict.ret = Valid
           ELSE LET first == CHOOSE i \in Violated(data.arg.o) :
                                \A j \in Violated(data.arg.o) : i <= j
                IN verdict.ret = Rules(data.arg.o)[first]

PriorityCall == data # NotCalled /\ data.method = "validate_priority_level"
ComplexityCall == data # NotCalled /\ data.method = "validate_complexity_level"

PriorityMembers == {JStr("Low"), JStr("Medium"), JStr("High")}
ComplexityMembers == {JStr("Simple"), JStr("Medium"), JStr("Complex")}
InvalidPriority == "Invalid priority level. Must be one of: Low, Medium, High"
InvalidComplexity == "Invalid complexity level. Must be one of: Simple, Medium, Complex"

\* What the claim expects of a level: None and '' pass, the members pass,
\* anything else gets the invalid-level message.
LevelAsStated(v, members, msg) ==
    IF v \in {JNull, JStr("")} \/ v \in members THEN Valid ELSE Invalid(msg)

\* C26 as stated: validate_priority_level and validate_complexity_level
\* accept None and the empty value, accept exactly the members of their
\* enumeration, and reject every other value with the invalid-level message.
C26_Original ==
    /\ PriorityCall =>
          verdict.ret = LevelAsStated(data.arg, PriorityMembers, InvalidPriority)
    /\ ComplexityCall =>
          verdict.ret = LevelAsStated(data.arg, ComplexityMembers, InvalidComplexity)

\* A level as the code has it: every value that is false in Python passes,
\* a str passes exactly when it is a member and fails with the
\* invalid-level message otherwise, and any other value fails with the
\* must-be-a-string message.
LevelAmended(v, members, msg, type_msg) ==
    IF ~NonEmpty(v) \/ v = JBool(FALSE) THEN Valid
    ELSE IF v.t # "str" THEN Invalid(type_msg)
    ELSE IF v \in members THEN Valid
    ELSE Invalid(msg)

\* C26, amended.
C26_Amended ==
    /\ PriorityCall =>
          /\ verdict.exc = "none"
          /\ verdict.ret = LevelAmended(data.arg, PriorityMembers, InvalidPriority,
                                        "Priority level must be a string")
    /\ ComplexityCall =>
          /\ verdict.exc = "none"
          /\ verdict.ret = LevelAmended(data.arg, ComplexityMembers, InvalidComplexity,
                                        "Complexity level must be a string")

\* The priority 5 is rejected for its type, not with the invalid-level message.
C26_Witness ==
    /\ PriorityCall
    /\ data.arg = JNum(5)
    /\ verdict.ret = Invalid("Priority level must be a string")

---------------------------------------------------------------------------
\* Further properties of the export service.

---------------------------------------------------------------------------
\* The route GET /api/export/<format> of src/app.py.  The data parameter is
\* a text of JSON tokens, as the response texts are.

\* for test_case in test_cases: the elements of a list, the keys of a dict,
\* the characters of a str; anything else cannot be iterated.
Iterate(v) ==
    CASE v.t = "list" -> Returned(v.l)
      [] v.t = "obj" ->
             Returned(IF DOMAIN v.o = {} THEN <<>>
                      ELSE <<JStr(CHOOSE k \in DOMAIN v.o : TRUE)>>)
      [] v.t = "str" -> Returned(IF v.s = "" THEN <<>> ELSE <<JStr("c")>>)
      [] OTHER -> Raise("TypeError", "'" \o PyType(v) \o "' object is not iterable")

\* len(test_cases)
LenOf(v) ==
    CASE v.t = "list" -> Returned(Len(v.l))
      [] v.t = "obj" -> Returned(Cardinality(DOMAIN v.o))
      [] v.t = "str" -> Returned(Len(v.s))
      [] OTHER -> Raise("TypeError", "object of type '" \o PyType(v) \o "' has no len()")

export_fieldnames ==
    <<"test_id", "title", "description", "test_type", "priority", "preconditions",
      "test_steps", "expected_result", "test_data", "category">>

\* The dict handed to writer.writerow for one element.
ExportRow(test_case) ==
    IF test_case.t # "obj"
    THEN Raise("AttributeError",
               "'" \o PyType(test_case) \o "' object has no attribute 'get'")
    ELSE LET test_steps == GetOr(test_case.o, "test_steps", JList(<<>>))
             test_steps_str == IF test_steps.t = "list" THEN Join("; ", test_steps.l)
                               ELSE Returned(StrOf(test_steps))
         IN IF test_steps_str.exc # "none" THEN test_steps_str
            ELSE Returned([f \in Range(export_fieldnames) |->
                              IF f = "test_steps" THEN JStr(test_steps_str.ret)
                              ELSE GetOr(test_case.o, f, JStr(""))])

\* The CSV branch: the header and one row per element, or the exception of
\* the first element that has no row.
ExportCsv(test_cases, filename) ==
    LET items == Iterate(test_cases) IN
    IF items.exc # "none" THEN items
    ELSE LET rows == [i \in 1..Len(items.ret) |-> ExportRow(items.ret[i])]
             failed == {i \in 1..Len(rows) : rows[i].exc # "none"}
         IN IF failed # {}
            THEN rows[CHOOSE i \in failed : \A j \in failed : i <= j]
            ELSE Returned(Answer(200,
                     [mimetype |-> "text/csv", filename |-> filename,
                      header |-> export_fieldnames,
                      rows |-> [i \in 1..Len(rows) |-> rows[i].ret]]))

\* The JSON branch.
ExportJson(test_cases, filename, t) ==
    LET total == LenOf(test_cases) IN
    IF total.exc # "none" THEN total
    ELSE Returned(Answer(200,
             [mimetype |-> "application/json", filename |-> filename,
              json |-> [exported_at |-> isoformat(t),
                        total_test_cases |-> total.ret,
                        test_cases |-> test_cases]]))

\* request.args.get('data'): None, or the text of the parameter.
NoData == [given |-> FALSE]
Data(text) == [given |-> TRUE, text |-> text]

\* The try body of export_test_cases.
ExportBody(format, test_cases_data, t) ==
    IF ~test_cases_data.given \/ test_cases_data.text = <<>>
    THEN Returned(ErrorAnswer(400, "No test cases data provided"))
    ELSE IF format \notin {"csv", "json"}
    THEN Returned(ErrorAnswer(400, "Format must be csv or json"))
    ELSE LET loaded == Loads(test_cases_data.text)
             filename == "test_cases_" \o strftime(t) \o "." \o format
         IN IF ~loaded.ok
            THEN Returned(ErrorAnswer(400, "Invalid test cases data"))
            ELSE IF format = "csv" THEN ExportCsv(loaded.val, filename)
            ELSE ExportJson(loaded.val, filename, t)

\* except Exception as e
export_test_cases(format, test_cases_data, t) ==
    LET body == ExportBody(format, test_cases_data, t) IN
    IF body.exc = "none" THEN body
    ELSE Returned(ErrorAnswer(500, "Export failed: " \o body.msg))

\* The data parameters the route is called with.
RouteRecords ==
    {EmptyDict, FullDict, Without(FullDict, "test_steps")}
    \cup {SetItem(FullDict, "test_steps", v) :
            v \in {JNull, JStr("click button"), JNum(3), JList(<<>>), JList(<<JNum(1)>>),
                   JList(<<JStr("a"), JNull>>)}}
    \cup {SetItem(EmptyDict, "title", v) : v \in {JNull, JNum(7), JList(<<JStr("t")>>)}}

DataTexts ==
    UNION {[1..n -> {PROSE, LBR, RBR, COMMA, JNum(5)}] : n \in 0..3}
    \cup {<<v>> : v \in {JNull, JStr(""), JStr("csv"), JObj(EmptyDict), JObj(FullDict)}}
    \cup {ArrayText(<<r>>) : r \in RouteRecords}
    \cup {ArrayText(<<FullDict, r>>) : r \in RouteRecords}
    \cup {<<LBR, JObj(FullDict), COMMA, JNum(1), RBR>>,
          <<LBR, JNum(1), COMMA, JObj(FullDict), RBR>>,
          <<LBR, JObj(FullDict), COMMA>>,
          <<PROSE>> \o ArrayText(<<FullDict>>)}

Formats == {"csv", "json", "xlsx", "jira"}

---------------------------------------------------------------------------
\* One call of the route: the step records the format and the data
\* parameter, and the answer.

InitExportRoute == ParserIdle /\ ServicesIdle

ExportTestCases ==
    /\ to_export = NotCalled
    /\ \E format \in Formats,
          test_cases_data \in {NoData} \cup {Data(text) : text \in DataTexts} :
          /\ to_export' = [method |-> "export_test_cases", format |-> format,
                           data |-> test_cases_data]
          /\ exported' = export_test_cases(format, test_cases_data, now)
    /\ UNCHANGED <<parse_vars, validation_vars, generate_vars>>

NextExportRoute == ExportTestCases

SpecExportRoute == InitExportRoute /\ [][NextExportRoute]_vars

---------------------------------------------------------------------------
\* Properties of the export route.

RouteCall == to_export # NotCalled /\ to_export.method = "export_test_cases"

DataMissing == ~to_export.data.given \/ to_export.data.text = <<>>
FormatUnsupported == to_export.format \notin {"csv", "json"}

\* What the data parameter holds, read off the text alone.
DataNotJson == to_export.data.given /\ ~Loads(to_export.data.text).ok
DataValue == Loads(to_export.data.text).val
DataIsJson == to_export.data.given /\ Loads(to_export.data.text).ok
DataNotArray == DataIsJson /\ DataValue.t # "list"
DataNotRecords == DataIsJson /\ DataValue.t = "list" /\ \E i \in 1..Len(DataValue.l) : DataValue.l[i].t # "obj"
DataEmptyArray == DataIsJson /\ DataValue = JList(<<>>)
DataInvalid == DataNotJson \/ DataNotArray \/ DataNotRecords \/ DataEmptyArray

IsFile(a) == a.status = 200 /\ "mimetype" \in DOMAIN a.body

\* C21: the route answers 400, and returns no file, whenever the data
\* parameter is missing or invalid (not JSON, not an array of records, or the
\* empty array) or the format is neither csv nor json.
C21_BadDataIs400 ==
    RouteCall /\ (DataMissing \/ FormatUnsupported \/ DataInvalid)
        => exported.ret.status = 400 /\ ~IsFile(exported.ret)

---------------------------------------------------------------------------
\* Two generate requests handled at the same time by the route of src/app.py.
\* A request is the thread flask runs generate_test_cases in.  `calls` holds,
\* for each request, where its thread is, the body it came with, the payload
\* it sent, what its outbound call came back with and the answer it got;
\* `frames` holds the local variables of each running handler.  The module
\* globals the handler reads, ANTHROPIC_API_KEY and the clock, are api_key
\* and now.  A step is a stretch of the handler between two points where
\* another thread's step can be seen: the entry up to requests.post, the
\* outbound call going out, its coming back, and the rest of the handler.

Clients == {1, 2}

\* Mutant: the handler's variables are module globals, one set for all calls.
SharedFrame(i) == 1

\* The frame of call i: every call of generate_test_cases has its own.
Frame(i) == i

EmptyFrame == [payload |-> NotCalled, response |-> NotCalled]

NewCall ==
    [pc |-> "idle", overlapped |-> FALSE, body |-> NotCalled, sent |-> NotCalled,
     reply |-> NotCalled, answer |-> NotCalled]

\* Whether call i is between its entry and its answer.
Running(i) == calls[i].pc \in {"posting", "posted", "returned"}

ConcurrentBodies ==
    { JNull,
      JObj(Dict({ <<"user_story_title", JText(<<"Login">>)>>,
                  <<"acceptance_criteria", JText(<<"ok">>)>>,
                  <<"test_types", JList(<<JStr("Functional")>>)>> })),
      JObj(Dict({ <<"user_story_title", JText(<<"Logout">>)>>,
                  <<"acceptance_criteria", JText(<<"ok">>)>>,
                  <<"test_types", JList(<<JStr("Security")>>)>>,
                  <<"complexity", JStr("Simple")>> })) }

ConcurrentReplies ==
    { [kind |-> "raise", exc |-> "ReadTimeout", msg |-> "Read timed out. (read timeout=60)"],
      [kind |-> "response", status_code |-> 529, text |-> "error"] }
    \cup { [kind |-> "response", status_code |-> 200, text |-> "",
            json |-> [t |-> "obj", o |-> [content |-> <<[type |-> "text", text |-> text]>>]]] :
               text \in {<<PROSE>>, ArrayText(<<FullDict>>), ArrayText(<<EmptyDict, EmptyDict>>)} }

InitConcurrent ==
    /\ ParserIdle
    /\ CallersIdle
    /\ api_key \in BOOLEAN
    /\ request = NotCalled
    /\ hpc = "idle"
    /\ caller = "none"
    /\ posts = 0
    /\ outbound = NotCalled
    /\ upstream = NotCalled
    /\ response = NotCalled
    /\ calls = [i \in Clients |-> NewCall]
    /\ frames = [i \in Clients |-> EmptyFrame]

OneCallVars == <<request, hpc, caller, posts, outbound, upstream, response>>

\* Request i comes in; the handler runs up to requests.post, or answers.
Arrive(i) ==
    /\ calls[i].pc = "idle"
    /\ \E body \in ConcurrentBodies :
          LET out == GenerateExcept(GenerateBody(api_key, body))
              meets == \E j \in Clients \ {i} : Running(j)
              seen == [j \in Clients |-> IF j = i THEN meets
                                            ELSE calls[j].overlapped \/ Running(j)]
          IN IF "post" \in DOMAIN out
             THEN /\ frames' = [frames EXCEPT ![Frame(i)].payload = out.post]
                  /\ calls' = [j \in Clients |->
                                 IF j = i THEN [calls[i] EXCEPT !.pc = "posting", !.body = body,
                                                                 !.overlapped = seen[i]]
                                 ELSE [calls[j] EXCEPT !.overlapped = seen[j]]]
             ELSE /\ calls' = [calls EXCEPT ![i].pc = "done", ![i].body = body,
                                            ![i].answer = out.ret]
                  /\ UNCHANGED frames
    /\ UNCHANGED <<api_key, OneCallVars, parse_vars, validation_vars, export_vars>>

\* requests.post(ANTHROPIC_API_URL, headers=headers, json=payload, timeout=60)
\* goes out with the payload the handler holds.
PostOut(i) ==
    /\ calls[i].pc = "posting"
    /\ calls' = [calls EXCEPT ![i].pc = "posted", ![i].sent = frames[Frame(i)].payload]
    /\ UNCHANGED <<frames, api_key, OneCallVars, parse_vars, validation_vars, export_vars>>

\* response = requests.post(...): the outbound call of request i comes back.
ComeBack(i) ==
    /\ calls[i].pc = "posted"
    /\ \E reply \in ConcurrentReplies :
          /\ frames' = [frames EXCEPT ![Frame(i)].response = reply]
          /\ calls' = [calls EXCEPT ![i].pc = "returned", ![i].reply = reply]
    /\ UNCHANGED <<api_key, OneCallVars, parse_vars, validation_vars, export_vars>>

\* The rest of the handler: the response it holds is turned into the answer.
AnswerCall(i) ==
    /\ calls[i].pc = "returned"
    /\ calls' = [calls EXCEPT ![i].pc = "done",
                              ![i].answer = GenerateExcept(GenerateAfter(frames[Frame(i)].response, now)).ret]
    /\ UNCHANGED <<frames, api_key, OneCallVars, parse_vars, validation_vars, export_vars>>

\* Time passes between the steps.
Elapse ==
    /\ now < MaxClock
    /\ now' = now + 1
    /\ UNCHANGED <<response_text, pc, result, raised, call_now, call_tick>>
    /\ UNCHANGED service_vars

Arrives == \E i \in Clients : Arrive(i)
PostsOut == \E i \in Clients : PostOut(i)
ComesBack == \E i \in Clients : ComeBack(i)
Answers == \E i \in Clients : AnswerCall(i)

NextConcurrent == Arrives \/ PostsOut \/ ComesBack \/ Answers \/ Elapse

SpecConcurrent == InitConcurrent /\ [][NextConcurrent]_vars

---------------------------------------------------------------------------
\* Properties of concurrent generate requests.

\* An answer without its readings of the clock.
Untimed(answer) ==
    IF answer.status = 200 /\ "test_cases" \in DOMAIN answer.body
    THEN [answer EXCEPT !.body.generated_at = "",
                        !.body.test_cases = [k \in 1..Len(@) |-> Without(@[k], "generated_at")]]
    ELSE answer

\* What a request with this body gets when it is handled alone and its
\* outbound call, if it makes one, comes back with `reply`.
AloneBefore(body) == GenerateExcept(GenerateBody(api_key, body))
AlonePosts(body) == "post" \in DOMAIN AloneBefore(body)
AloneAnswer(body, reply) ==
    IF AlonePosts(body) THEN GenerateExcept(GenerateAfter(reply, now)).ret
    ELSE AloneBefore(body).ret

\* C28: with two generate requests handled concurrently, in any interleaving
\* of their steps, each request sends the payload and gets the answer
\* (status and records, the readings of the clock left out) it sends and
\* gets when handled alone.
C28_Reentrant ==
    calls # NotCalled =>
        \A i \in Clients :
            /\ calls[i].pc \in {"posted", "returned"} =>
                   calls[i].sent = AloneBefore(calls[i].body).post
            /\ calls[i].pc = "done" =>
                   /\ AlonePosts(calls[i].body) <=> calls[i].sent # NotCalled
                   /\ Untimed(calls[i].answer) = Untimed(AloneAnswer(calls[i].body, calls[i].reply))

\* Both requests ran at the same time with different bodies and different
\* replies, and both are answered: one with records, one with a timeout.
C28_Witness ==
    /\ calls # NotCalled
    /\ \A i \in Clients : calls[i].pc = "done" /\ calls[i].overlapped
    /\ calls[1].body # calls[2].body
    /\ calls[1].answer.status = 200
    /\ calls[1].answer.body.total_count = 2
    /\ calls[2].answer.status = 408

====
